---- MODULE Spec2Model ----
(***************************************************************************)
(* Model of the three MCP bindings of seans-tools:                         *)
(*   - the remote MCP-over-HTTP handler  (lambda_functions/mcp_server)     *)
(*   - the local stdio server            (seans_tools_mcp_server.py)       *)
(*   - the remote proxy                  (cloud_mcp_proxy.py)              *)
(* and of the REST handlers behind the proxy (math_add, get_random_...).   *)
(* Python values are tagged records, JSON text is a sequence of tokens,    *)
(* and every handler is an operator from its input to its return value.    *)
(***************************************************************************)
EXTENDS Integers, Sequences, FiniteSets, TLC

VARIABLES
    pc,         \* "idle", "received", "awaiting" (the proxy awaits its POST) or "responded"
    binding,    \* the component the current request is addressed to
    request,    \* the current request: a Lambda event or a (name, arguments) call
    response,   \* the outcome of the handler: what it returned or raised
    draws,      \* number of draws the handler took from the random source
    posts,      \* the HTTP POSTs the proxy issued for the current request
    reply,      \* the outcome of the proxy's POST, once it has one
    session     \* what a server process keeps between requests: the position of
                \* its random generator, and the log of the requests it answered

vars == <<pc, binding, request, response, draws, posts, reply, session>>

(***************************************************************************)
(* Python values.  A float is kept in halves: h stands for h/2, which is   *)
(* exact for every float the bounded inputs can produce.                   *)
(***************************************************************************)
PyNone == [t |-> "none"]
PyBool(b) == [t |-> "bool", b |-> b]
PyInt(n) == [t |-> "int", n |-> n]
PyFloat(h) == [t |-> "float", h |-> h]
\* the IEEE negative zero, which prints as -0.0 and equals 0.0
NegZero == [t |-> "float", h |-> 0, z |-> "-"]
PyStr(s) == [t |-> "str", s |-> s]
PyList(l) == [t |-> "list", l |-> l]
PyDict(d) == [t |-> "dict", d |-> d]

EmptyDict == PyDict(<<>>)
EmptyList == PyList(<<>>)

IsNum(v) == v.t \in {"int", "float"}

\* the numeric value of an int or float, in halves
Halves(v) == IF v.t = "int" THEN 2 * v.n ELSE v.h

\* the sign bit of a number converted to float
SignBit(v) == Halves(v) < 0 \/ (v.t = "float" /\ "z" \in DOMAIN v)

\* the float h/2 a product or quotient yields, a zero taking the sign neg
MkFloat(h, neg) == IF h = 0 /\ neg THEN NegZero ELSE PyFloat(h)

\* type(v).__name__
TypeName(v) ==
    CASE v.t = "none" -> "NoneType"
      [] v.t = "bool" -> "bool"
      [] v.t = "int" -> "int"
      [] v.t = "float" -> "float"
      [] v.t = "str" -> "str"
      [] v.t = "list" -> "list"
      [] v.t = "dict" -> "dict"

\* bool(v): Python truthiness
Truthy(v) ==
    CASE v.t = "none" -> FALSE
      [] v.t = "bool" -> v.b
      [] v.t = "int" -> v.n # 0
      [] v.t = "float" -> v.h # 0
      [] v.t = "str" -> v.s # ""
      [] v.t = "list" -> Len(v.l) > 0
      [] v.t = "dict" -> DOMAIN v.d # {}

\* a == b for the values the handlers compare (ints and floats compare by value)
PyEq(a, b) ==
    IF IsNum(a) /\ IsNum(b) THEN Halves(a) = Halves(b) ELSE a = b

(***************************************************************************)
(* str() and repr(), as used by the f-strings of the handlers.             *)
(***************************************************************************)
FloatStr(h) ==
    IF h % 2 = 0 THEN ToString(h \div 2) \o ".0"
    ELSE IF h > 0 THEN ToString(h \div 2) \o ".5"
    ELSE "-" \o ToString((0 - h) \div 2) \o ".5"

RECURSIVE PyRepr(_)
RECURSIVE ReprItems(_, _, _)
RECURSIVE ReprPairs(_, _)

\* the keys a dict of the model can carry, in the order they are written out
KeyOrder == <<
    "jsonrpc", "id", "method", "params", "result", "error", "code", "message",
    "name", "arguments", "a", "b", "min", "max", "count", "choices",
    "allow_duplicates", "protocolVersion", "clientInfo", "capabilities",
    "tools", "serverInfo", "version", "content", "type", "text",
    "description", "inputSchema", "properties", "required",
    "additionalProperties", "default", "minimum", "maximum", "items",
    "minItems", "operation", "expression", "choices_count" >>

\* the keys of dict value v, in writing order
KeysOf(v) == SelectSeq(KeyOrder, LAMBDA k : k \in DOMAIN v.d)

\* the reprs of l[lo..hi] joined by ", " (halving keeps the nesting shallow
\* for the longest lists)
ReprItems(l, lo, hi) ==
    IF lo > hi THEN ""
    ELSE IF lo = hi THEN PyRepr(l[lo])
    ELSE LET mid == (lo + hi) \div 2
         IN  ReprItems(l, lo, mid) \o ", " \o ReprItems(l, mid + 1, hi)

ReprPairs(v, ks) ==
    IF ks = <<>> THEN ""
    ELSE "'" \o Head(ks) \o "': " \o PyRepr(v.d[Head(ks)])
         \o (IF Len(ks) > 1 THEN ", " ELSE "") \o ReprPairs(v, Tail(ks))

PyRepr(v) ==
    CASE v.t = "none" -> "None"
      [] v.t = "bool" -> IF v.b THEN "True" ELSE "False"
      [] v.t = "int" -> ToString(v.n)
      [] v.t = "float" -> IF v = NegZero THEN "-0.0" ELSE FloatStr(v.h)
      [] v.t = "str" -> "'" \o v.s \o "'"
      [] v.t = "list" -> "[" \o ReprItems(v.l, 1, Len(v.l)) \o "]"
      [] v.t = "dict" -> "{" \o ReprPairs(v, KeysOf(v)) \o "}"

\* str(v): what an f-string writes for {v}
Fmt(v) == IF v.t = "str" THEN v.s ELSE PyRepr(v)

(***************************************************************************)
(* Outcomes of evaluating Python code: a value, or a raised exception.     *)
(***************************************************************************)
Val(v) == [raised |-> FALSE, val |-> v]
Raise(e, m) == [raised |-> TRUE, exc |-> e, msg |-> m]

\* the pairs (s1, s2) of strings of the model with s1 > s2 in Python's order
StrOrder == {<<"x", "2">>, <<"x", "3">>, <<"3", "2">>}

\* a > b, a < b  (op is ">" or "<")
PyCompare(op, a, b) ==
    IF IsNum(a) /\ IsNum(b)
    THEN Val(IF op = ">" THEN Halves(a) > Halves(b) ELSE Halves(a) < Halves(b))
    ELSE IF a.t = "str" /\ b.t = "str"
    THEN Val(IF op = ">" THEN <<a.s, b.s>> \in StrOrder ELSE <<b.s, a.s>> \in StrOrder)
    ELSE Raise("TypeError", "'" \o op \o "' not supported between instances of '"
                            \o TypeName(a) \o "' and '" \o TypeName(b) \o "'")

\* len(v)
PyLen(v) ==
    CASE v.t = "list" -> Val(Len(v.l))
      [] v.t = "dict" -> Val(Cardinality(DOMAIN v.d))
      [] OTHER -> Raise("TypeError", "object of type '" \o TypeName(v) \o "' has no len()")

\* v.get(key, default)
PyGet(v, key, default) ==
    IF v.t = "dict"
    THEN Val(IF key \in DOMAIN v.d THEN v.d[key] ELSE default)
    ELSE Raise("AttributeError",
               "'" \o TypeName(v) \o "' object has no attribute 'get'")

\* the strings of the model that have key as a substring
Substrings == {<<"method", "method">>, <<"method", "xmethodx">>}

\* key in v
PyIn(key, v) ==
    CASE v.t = "dict" -> Val(key \in DOMAIN v.d)
      [] v.t = "list" -> Val(\E i \in 1..Len(v.l) : v.l[i] = PyStr(key))
      [] v.t = "str" -> Val(<<key, v.s>> \in Substrings)
      [] OTHER -> Raise("TypeError",
                        "argument of type '" \o TypeName(v) \o "' is not iterable")

\* v[key] for a string key
PyIndex(v, key) ==
    CASE v.t = "dict" ->
            IF key \in DOMAIN v.d THEN Val(v.d[key])
            ELSE Raise("KeyError", "'" \o key \o "'")
      [] v.t = "str" -> Raise("TypeError", "string indices must be integers, not 'str'")
      [] v.t = "list" ->
            Raise("TypeError", "list indices must be integers or slices, not str")
      [] OTHER -> Raise("TypeError",
                        "'" \o TypeName(v) \o "' object is not subscriptable")

UnsupportedOperand(op, a, b) ==
    Raise("TypeError", "unsupported operand type(s) for " \o op \o ": '"
                       \o TypeName(a) \o "' and '" \o TypeName(b) \o "'")

\* a + b
PyAdd(a, b) ==
    IF a.t = "int" /\ b.t = "int" THEN Val(PyInt(a.n + b.n))
    ELSE IF IsNum(a) /\ IsNum(b) THEN Val(PyFloat(Halves(a) + Halves(b)))
    ELSE IF a.t = "str" /\ b.t = "str" THEN Val(PyStr(a.s \o b.s))
    ELSE IF a.t = "str"
    THEN Raise("TypeError", "can only concatenate str (not " \o "\"" \o TypeName(b)
                            \o "\"" \o ") to str")
    ELSE UnsupportedOperand("+", a, b)

\* a subtraction with its operands exchanged
PySubReversed(a, b) ==
    IF a.t = "int" /\ b.t = "int" THEN Val(PyInt(b.n - a.n))
    ELSE IF IsNum(a) /\ IsNum(b) THEN Val(PyFloat(Halves(b) - Halves(a)))
    ELSE UnsupportedOperand("-", a, b)

\* a - b
PySub(a, b) ==
    IF a.t = "int" /\ b.t = "int" THEN Val(PyInt(a.n - b.n))
    ELSE IF IsNum(a) /\ IsNum(b) THEN Val(PyFloat(Halves(a) - Halves(b)))
    ELSE UnsupportedOperand("-", a, b)

RECURSIVE StrTimes(_, _)
StrTimes(s, n) == IF n <= 0 THEN "" ELSE s \o StrTimes(s, n - 1)

\* a * b, for the integral floats of the inputs
PyMul(a, b) ==
    IF a.t = "int" /\ b.t = "int" THEN Val(PyInt(a.n * b.n))
    ELSE IF IsNum(a) /\ IsNum(b)
    THEN Val(MkFloat((Halves(a) * Halves(b)) \div 2, SignBit(a) # SignBit(b)))
    ELSE IF a.t = "str" /\ b.t = "int" THEN Val(PyStr(StrTimes(a.s, b.n)))
    ELSE IF a.t = "int" /\ b.t = "str" THEN Val(PyStr(StrTimes(b.s, a.n)))
    ELSE IF a.t = "str"
    THEN Raise("TypeError",
               "can't multiply sequence by non-int of type '" \o TypeName(b) \o "'")
    ELSE IF b.t = "str"
    THEN Raise("TypeError",
               "can't multiply sequence by non-int of type '" \o TypeName(a) \o "'")
    ELSE UnsupportedOperand("*", a, b)

\* a // b in place of a / b
PyDivFloor(a, b) ==
    IF IsNum(a) /\ IsNum(b)
    THEN IF Halves(b) = 0
         THEN Raise("ZeroDivisionError", "float division by zero")
         ELSE LET q == (2 * Halves(a)) \div Halves(b)
              IN  Val(MkFloat(q - (q % 2), SignBit(a) # SignBit(b)))
    ELSE UnsupportedOperand("/", a, b)

\* a / b: true division, always a float (exact in halves for the divisors of
\* the inputs, which are 1, 2 and their negatives)
PyDiv(a, b) ==
    IF IsNum(a) /\ IsNum(b)
    THEN IF Halves(b) = 0
         THEN Raise("ZeroDivisionError",
                    IF a.t = "int" /\ b.t = "int" THEN "division by zero"
                    ELSE "float division by zero")
         ELSE Val(MkFloat((2 * Halves(a)) \div Halves(b), SignBit(a) # SignBit(b)))
    ELSE UnsupportedOperand("/", a, b)

(***************************************************************************)
(* The random source.  A run of the generator is a cyclic stream rng of    *)
(* raw draws in 0..RndMax; the k-th call of random() consumes rng's k-th   *)
(* element.                                                                *)
(***************************************************************************)
RngLen == 2
RndMax == 2
Rngs == [1..RngLen -> 0..RndMax]

RawDraw(rng, k) == rng[((k - 1) % RngLen) + 1]

\* a uniform that scales the draw by the whole range and leaves [a, b]
UniformOvershoot(rng, k, a, b) ==
    IF IsNum(a) /\ IsNum(b)
    THEN Val(PyFloat(Halves(a) + (Halves(b) - Halves(a)) * (RawDraw(rng, k) + 1)))
    ELSE [raised |-> TRUE, exc |-> "TypeError", msg |-> "unsupported operand"]

\* random.uniform(a, b) = a + (b - a) * random(), taking draw number k
Uniform(rng, k, a, b) ==
    IF IsNum(a) /\ IsNum(b)
    THEN Val(PyFloat(Halves(a) + ((Halves(b) - Halves(a)) * RawDraw(rng, k)) \div RndMax))
    ELSE UnsupportedOperand("-", b, a)

\* random._randbelow(n), taking draw number k
RandBelow(rng, k, n) == RawDraw(rng, k) % n

\* random.choice(seq) for a non-empty list, taking draw number k
Choice(rng, k, l) == l[RandBelow(rng, k, Len(l)) + 1]

\* a comprehension over range(count - 1)
ChoiceListShort(rng, k0, l, count) ==
    [i \in 1..(IF count > 1 THEN count - 1 ELSE 0) |-> l[(RawDraw(rng, k0 + i) % Len(l)) + 1]]

\* [random.choice(l) for _ in range(count)], taking draws k0+1 .. k0+count
ChoiceList(rng, k0, l, count) ==
    [i \in 1..(IF count > 0 THEN count ELSE 0) |-> Choice(rng, k0 + i, l)]

\* a comprehension that stops one element early
UniformListShort(rng, a, b, count) ==
    [i \in 1..(IF count > 1 THEN count - 1 ELSE 0) |->
        PyFloat(Halves(a) + ((Halves(b) - Halves(a)) * RawDraw(rng, i)) \div RndMax)]

\* [random.uniform(a, b) for _ in range(count)]
UniformList(rng, a, b, count) ==
    [i \in 1..(IF count > 0 THEN count ELSE 0) |-> Uniform(rng, i, a, b).val]

\* random.sample's pool selection: the i-th pick takes pool[j], j below n-i,
\* and moves the last live element of the pool into its place
RECURSIVE SamplePool(_, _, _, _, _)
SamplePool(rng, pool, i, k, acc) ==
    IF i >= k THEN acc
    ELSE LET n == Len(pool)
             j == RandBelow(rng, i + 1, n - i) + 1
         IN  SamplePool(rng, [pool EXCEPT ![j] = pool[n - i]], i + 1, k,
                        Append(acc, pool[j]))

\* a sample that draws every element from the whole list, with replacement
SampleWithReplacement(rng, l, k) ==
    IF k.t # "int" \/ k.n < 0 \/ k.n > Len(l)
    THEN [raised |-> TRUE, exc |-> "ValueError",
          msg |-> "Sample larger than population or is negative"]
    ELSE [raised |-> FALSE,
          val |-> [t |-> "list", l |-> [i \in 1..k.n |-> l[RandBelow(rng, i, Len(l)) + 1]]]]

\* random.sample(l, k) for a list l
Sample(rng, l, k) ==
    IF k.t # "int"
    THEN Raise("TypeError",
               "can't multiply sequence by non-int of type '" \o TypeName(k) \o "'")
    ELSE IF k.n < 0 \/ k.n > Len(l)
    THEN Raise("ValueError", "Sample larger than population or is negative")
    ELSE Val(PyList(SamplePool(rng, l, 0, k.n, <<>>)))

(***************************************************************************)
(* JSON text.  A text is a sequence of tokens: punctuation and scalars.    *)
(* json.dumps writes a value out, json.loads parses a token sequence by    *)
(* recursive descent and raises JSONDecodeError on anything else.          *)
(***************************************************************************)
Punct(p) == [t |-> "punct", p |-> p]
LBrace == Punct("{")
RBrace == Punct("}")
LBracket == Punct("[")
RBracket == Punct("]")
Colon == Punct(":")
Comma == Punct(",")

IsScalar(v) == v.t \in {"none", "bool", "int", "float", "str"}

RECURSIVE JsonDumps(_)
RECURSIVE DumpItems(_, _, _)
RECURSIVE DumpPairs(_, _)

\* the elements l[lo..hi] with a comma between neighbours
DumpItems(l, lo, hi) ==
    IF lo > hi THEN <<>>
    ELSE IF lo = hi THEN JsonDumps(l[lo])
    ELSE LET mid == (lo + hi) \div 2
         IN  DumpItems(l, lo, mid) \o <<Comma>> \o DumpItems(l, mid + 1, hi)

DumpPairs(v, ks) ==
    IF ks = <<>> THEN <<>>
    ELSE <<PyStr(Head(ks)), Colon>> \o JsonDumps(v.d[Head(ks)])
         \o (IF Len(ks) > 1 THEN <<Comma>> ELSE <<>>) \o DumpPairs(v, Tail(ks))

\* json.dumps(v)
JsonDumps(v) ==
    CASE IsScalar(v) -> <<v>>
      [] v.t = "list" -> <<LBracket>> \o DumpItems(v.l, 1, Len(v.l)) \o <<RBracket>>
      [] v.t = "dict" -> <<LBrace>> \o DumpPairs(v, KeysOf(v)) \o <<RBrace>>

ParseFail == [ok |-> FALSE]
Parsed(v, next) == [ok |-> TRUE, val |-> v, next |-> next]

RECURSIVE ParseValue(_, _)
RECURSIVE ParseItems(_, _, _)
RECURSIVE ParseMembers(_, _, _)

\* the index of the first "]" at or after i, or 0
FirstClose(toks, i) ==
    LET closes == {j \in i..Len(toks) : toks[j] = RBracket}
    IN  IF closes = {} THEN 0
        ELSE CHOOSE j \in closes : \A k \in closes : j <= k

\* toks[i..close-1] is scalar ("," scalar)*: an array without nesting
IsFlatArray(toks, i, close) ==
    /\ close > i
    /\ (close - i) % 2 = 1
    /\ \A j \in i..(close - 1) :
          IF (j - i) % 2 = 0 THEN IsScalar(toks[j]) ELSE toks[j] = Comma

\* the elements of an array after "[" or ",": value ("," value)* "]"
ParseItems(toks, i, acc) ==
    LET r == ParseValue(toks, i)
        close == FirstClose(toks, i)
    IN  IF IsFlatArray(toks, i, close)
        THEN Parsed(PyList(acc \o [k \in 1..((close - i + 1) \div 2) |->
                                      toks[i + 2 * (k - 1)]]), close + 1)
        ELSE IF ~r.ok \/ r.next > Len(toks) THEN ParseFail
        ELSE IF toks[r.next] = Comma
             THEN ParseItems(toks, r.next + 1, Append(acc, r.val))
        ELSE IF toks[r.next] = RBracket
             THEN Parsed(PyList(Append(acc, r.val)), r.next + 1)
        ELSE ParseFail

\* the members of an object after "{" or ",": string ":" value ("," ...)* "}"
ParseMembers(toks, i, acc) ==
    IF i + 1 > Len(toks) \/ toks[i].t # "str" \/ toks[i + 1] # Colon THEN ParseFail
    ELSE LET r == ParseValue(toks, i + 2)
             k == toks[i].s
             d == [x \in DOMAIN acc \cup {k} |-> IF x = k THEN r.val ELSE acc[x]]
         IN  IF ~r.ok \/ r.next > Len(toks) THEN ParseFail
             ELSE IF toks[r.next] = Comma THEN ParseMembers(toks, r.next + 1, d)
             ELSE IF toks[r.next] = RBrace THEN Parsed(PyDict(d), r.next + 1)
             ELSE ParseFail

ParseValue(toks, i) ==
    IF i > Len(toks) THEN ParseFail
    ELSE IF IsScalar(toks[i]) THEN Parsed(toks[i], i + 1)
    ELSE IF toks[i] = LBracket
         THEN IF i + 1 <= Len(toks) /\ toks[i + 1] = RBracket
              THEN Parsed(EmptyList, i + 2)
              ELSE ParseItems(toks, i + 1, <<>>)
    ELSE IF toks[i] = LBrace
         THEN IF i + 1 <= Len(toks) /\ toks[i + 1] = RBrace
              THEN Parsed(EmptyDict, i + 2)
              ELSE ParseMembers(toks, i + 1, <<>>)
    ELSE ParseFail

\* json.loads(text); the message is the one for a text that fails at its
\* first character, the only one a handler passes on
JsonLoads(toks) ==
    LET r == ParseValue(toks, 1)
    IN  IF r.ok /\ r.next = Len(toks) + 1 THEN Val(r.val)
        ELSE Raise("JSONDecodeError", "Expecting value: line 1 column 1 (char 0)")

(***************************************************************************)
(* The tool catalogs: the literal each binding returns for tools/list.     *)
(***************************************************************************)
\* list_tools() of the remote MCP handler
McpListTools ==
    PyDict([
      tools |-> PyList(<<
        PyDict([
          name |-> PyStr("get_random_number"),
          description |-> PyStr("Generate a random number within a specified range"),
          inputSchema |-> PyDict([
            type |-> PyStr("object"),
            properties |-> PyDict([
              min |-> PyDict([
                type |-> PyStr("number"),
                description |-> PyStr("Minimum value (default: 0)"),
                default |-> PyInt(0) ]),
              max |-> PyDict([
                type |-> PyStr("number"),
                description |-> PyStr("Maximum value (default: 100)"),
                default |-> PyInt(100) ]) ]),
            additionalProperties |-> PyBool(FALSE) ]) ]),
        PyDict([
          name |-> PyStr("get_random_number_list"),
          description |-> PyStr("Generate a list of random numbers"),
          inputSchema |-> PyDict([
            type |-> PyStr("object"),
            properties |-> PyDict([
              count |-> PyDict([
                type |-> PyStr("integer"),
                description |-> PyStr("Number of random numbers to generate (default: 5)"),
                default |-> PyInt(5),
                minimum |-> PyInt(1),
                maximum |-> PyInt(1000) ]),
              min |-> PyDict([
                type |-> PyStr("number"),
                description |-> PyStr("Minimum value for each number (default: 0)"),
                default |-> PyInt(0) ]),
              max |-> PyDict([
                type |-> PyStr("number"),
                description |-> PyStr("Maximum value for each number (default: 100)"),
                default |-> PyInt(100) ]) ]),
            additionalProperties |-> PyBool(FALSE) ]) ]),
        PyDict([
          name |-> PyStr("get_random_choice"),
          description |-> PyStr("Pick random item(s) from a provided list of choices"),
          inputSchema |-> PyDict([
            type |-> PyStr("object"),
            properties |-> PyDict([
              choices |-> PyDict([
                type |-> PyStr("array"),
                description |-> PyStr("List of items to choose from"),
                items |-> PyDict([
                  type |-> PyList(<<
                    PyStr("string"),
                    PyStr("number"),
                    PyStr("boolean") >>) ]),
                minItems |-> PyInt(1) ]),
              count |-> PyDict([
                type |-> PyStr("integer"),
                description |-> PyStr("Number of items to select (default: 1)"),
                default |-> PyInt(1),
                minimum |-> PyInt(1) ]),
              allow_duplicates |-> PyDict([
                type |-> PyStr("boolean"),
                description |-> PyStr("Allow selecting the same item multiple times (default: false)"),
                default |-> PyBool(FALSE) ]) ]),
            required |-> PyList(<<PyStr("choices")>>),
            additionalProperties |-> PyBool(FALSE) ]) ]),
        PyDict([
          name |-> PyStr("math_add"),
          description |-> PyStr("Add two numbers together"),
          inputSchema |-> PyDict([
            type |-> PyStr("object"),
            properties |-> PyDict([
              a |-> PyDict([
                type |-> PyStr("number"),
                description |-> PyStr("First number") ]),
              b |-> PyDict([
                type |-> PyStr("number"),
                description |-> PyStr("Second number") ]) ]),
            required |-> PyList(<<PyStr("a"), PyStr("b")>>),
            additionalProperties |-> PyBool(FALSE) ]) ]),
        PyDict([
          name |-> PyStr("math_subtract"),
          description |-> PyStr("Subtract second number from first number"),
          inputSchema |-> PyDict([
            type |-> PyStr("object"),
            properties |-> PyDict([
              a |-> PyDict([
                type |-> PyStr("number"),
                description |-> PyStr("First number (minuend)") ]),
              b |-> PyDict([
                type |-> PyStr("number"),
                description |-> PyStr("Second number (subtrahend)") ]) ]),
            required |-> PyList(<<PyStr("a"), PyStr("b")>>),
            additionalProperties |-> PyBool(FALSE) ]) ]),
        PyDict([
          name |-> PyStr("math_multiply"),
          description |-> PyStr("Multiply two numbers together"),
          inputSchema |-> PyDict([
            type |-> PyStr("object"),
            properties |-> PyDict([
              a |-> PyDict([
                type |-> PyStr("number"),
                description |-> PyStr("First number") ]),
              b |-> PyDict([
                type |-> PyStr("number"),
                description |-> PyStr("Second number") ]) ]),
            required |-> PyList(<<PyStr("a"), PyStr("b")>>),
            additionalProperties |-> PyBool(FALSE) ]) ]),
        PyDict([
          name |-> PyStr("math_divide"),
          description |-> PyStr("Divide first number by second number"),
          inputSchema |-> PyDict([
            type |-> PyStr("object"),
            properties |-> PyDict([
              a |-> PyDict([
                type |-> PyStr("number"),
                description |-> PyStr("Dividend (number to be divided)") ]),
              b |-> PyDict([
                type |-> PyStr("number"),
                description |-> PyStr("Divisor (number to divide by)") ]) ]),
            required |-> PyList(<<PyStr("a"), PyStr("b")>>),
            additionalProperties |-> PyBool(FALSE) ]) ]) >>) ])

\* handle_list_tools() of the local stdio server
LocalListTools ==
    PyList(<<
      PyDict([
        name |-> PyStr("get_random_number"),
        description |-> PyStr("Generate a random number within a specified range"),
        inputSchema |-> PyDict([
          type |-> PyStr("object"),
          properties |-> PyDict([
            min |-> PyDict([
              type |-> PyStr("number"),
              description |-> PyStr("Minimum value (default: 0)"),
              default |-> PyInt(0) ]),
            max |-> PyDict([
              type |-> PyStr("number"),
              description |-> PyStr("Maximum value (default: 100)"),
              default |-> PyInt(100) ]) ]),
          additionalProperties |-> PyBool(FALSE) ]) ]),
      PyDict([
        name |-> PyStr("get_random_number_list"),
        description |-> PyStr("Generate a list of random numbers"),
        inputSchema |-> PyDict([
          type |-> PyStr("object"),
          properties |-> PyDict([
            count |-> PyDict([
              type |-> PyStr("integer"),
              description |-> PyStr("Number of random numbers to generate (default: 5)"),
              default |-> PyInt(5),
              minimum |-> PyInt(1),
              maximum |-> PyInt(1000) ]),
            min |-> PyDict([
              type |-> PyStr("number"),
              description |-> PyStr("Minimum value for each number (default: 0)"),
              default |-> PyInt(0) ]),
            max |-> PyDict([
              type |-> PyStr("number"),
              description |-> PyStr("Maximum value for each number (default: 100)"),
              default |-> PyInt(100) ]) ]),
          additionalProperties |-> PyBool(FALSE) ]) ]),
      PyDict([
        name |-> PyStr("get_random_choice"),
        description |-> PyStr("Pick random item(s) from a provided list of choices"),
        inputSchema |-> PyDict([
          type |-> PyStr("object"),
          properties |-> PyDict([
            choices |-> PyDict([
              type |-> PyStr("array"),
              description |-> PyStr("List of items to choose from"),
              items |-> PyDict([
                type |-> PyList(<<
                  PyStr("string"),
                  PyStr("number"),
                  PyStr("boolean") >>) ]),
              minItems |-> PyInt(1) ]),
            count |-> PyDict([
              type |-> PyStr("integer"),
              description |-> PyStr("Number of items to select (default: 1)"),
              default |-> PyInt(1),
              minimum |-> PyInt(1) ]),
            allow_duplicates |-> PyDict([
              type |-> PyStr("boolean"),
              description |-> PyStr("Allow selecting the same item multiple times (default: false)"),
              default |-> PyBool(FALSE) ]) ]),
          required |-> PyList(<<PyStr("choices")>>),
          additionalProperties |-> PyBool(FALSE) ]) ]),
      PyDict([
        name |-> PyStr("math_add"),
        description |-> PyStr("Add two numbers together"),
        inputSchema |-> PyDict([
          type |-> PyStr("object"),
          properties |-> PyDict([
            a |-> PyDict([
              type |-> PyStr("number"),
              description |-> PyStr("First number") ]),
            b |-> PyDict([
              type |-> PyStr("number"),
              description |-> PyStr("Second number") ]) ]),
          required |-> PyList(<<PyStr("a"), PyStr("b")>>),
          additionalProperties |-> PyBool(FALSE) ]) ]),
      PyDict([
        name |-> PyStr("math_subtract"),
        description |-> PyStr("Subtract second number from first number"),
        inputSchema |-> PyDict([
          type |-> PyStr("object"),
          properties |-> PyDict([
            a |-> PyDict([
              type |-> PyStr("number"),
              description |-> PyStr("First number (minuend)") ]),
            b |-> PyDict([
              type |-> PyStr("number"),
              description |-> PyStr("Second number (subtrahend)") ]) ]),
          required |-> PyList(<<PyStr("a"), PyStr("b")>>),
          additionalProperties |-> PyBool(FALSE) ]) ]),
      PyDict([
        name |-> PyStr("math_multiply"),
        description |-> PyStr("Multiply two numbers together"),
        inputSchema |-> PyDict([
          type |-> PyStr("object"),
          properties |-> PyDict([
            a |-> PyDict([
              type |-> PyStr("number"),
              description |-> PyStr("First number") ]),
            b |-> PyDict([
              type |-> PyStr("number"),
              description |-> PyStr("Second number") ]) ]),
          required |-> PyList(<<PyStr("a"), PyStr("b")>>),
          additionalProperties |-> PyBool(FALSE) ]) ]),
      PyDict([
        name |-> PyStr("math_divide"),
        description |-> PyStr("Divide first number by second number"),
        inputSchema |-> PyDict([
          type |-> PyStr("object"),
          properties |-> PyDict([
            a |-> PyDict([
              type |-> PyStr("number"),
              description |-> PyStr("Dividend (number to be divided)") ]),
            b |-> PyDict([
              type |-> PyStr("number"),
              description |-> PyStr("Divisor (number to divide by)") ]) ]),
          required |-> PyList(<<PyStr("a"), PyStr("b")>>),
          additionalProperties |-> PyBool(FALSE) ]) ]) >>)

\* handle_list_tools() of the remote proxy
\* the proxy listing the descriptors of the local server unchanged
ProxyListToolsAsLocal == LocalListTools

ProxyListTools ==
    PyList(<<
      PyDict([
        name |-> PyStr("get_random_number"),
        description |-> PyStr("Generate a random number within a specified range (Cloud)"),
        inputSchema |-> PyDict([
          type |-> PyStr("object"),
          properties |-> PyDict([
            min |-> PyDict([
              type |-> PyStr("number"),
              description |-> PyStr("Minimum value (default: 0)"),
              default |-> PyInt(0) ]),
            max |-> PyDict([
              type |-> PyStr("number"),
              description |-> PyStr("Maximum value (default: 100)"),
              default |-> PyInt(100) ]) ]),
          additionalProperties |-> PyBool(FALSE) ]) ]),
      PyDict([
        name |-> PyStr("get_random_number_list"),
        description |-> PyStr("Generate a list of random numbers (Cloud)"),
        inputSchema |-> PyDict([
          type |-> PyStr("object"),
          properties |-> PyDict([
            count |-> PyDict([
              type |-> PyStr("integer"),
              description |-> PyStr("Number of random numbers to generate (default: 5)"),
              default |-> PyInt(5),
              minimum |-> PyInt(1),
              maximum |-> PyInt(1000) ]),
            min |-> PyDict([
              type |-> PyStr("number"),
              description |-> PyStr("Minimum value for each number (default: 0)"),
              default |-> PyInt(0) ]),
            max |-> PyDict([
              type |-> PyStr("number"),
              description |-> PyStr("Maximum value for each number (default: 100)"),
              default |-> PyInt(100) ]) ]),
          additionalProperties |-> PyBool(FALSE) ]) ]),
      PyDict([
        name |-> PyStr("get_random_choice"),
        description |-> PyStr("Pick random item(s) from a provided list of choices (Cloud)"),
        inputSchema |-> PyDict([
          type |-> PyStr("object"),
          properties |-> PyDict([
            choices |-> PyDict([
              type |-> PyStr("array"),
              description |-> PyStr("List of items to choose from"),
              items |-> PyDict([
                type |-> PyList(<<
                  PyStr("string"),
                  PyStr("number"),
                  PyStr("boolean") >>) ]),
              minItems |-> PyInt(1) ]),
            count |-> PyDict([
              type |-> PyStr("integer"),
              description |-> PyStr("Number of items to select (default: 1)"),
              default |-> PyInt(1),
              minimum |-> PyInt(1) ]),
            allow_duplicates |-> PyDict([
              type |-> PyStr("boolean"),
              description |-> PyStr("Allow selecting the same item multiple times (default: false)"),
              default |-> PyBool(FALSE) ]) ]),
          required |-> PyList(<<PyStr("choices")>>),
          additionalProperties |-> PyBool(FALSE) ]) ]),
      PyDict([
        name |-> PyStr("math_add"),
        description |-> PyStr("Add two numbers together (Cloud)"),
        inputSchema |-> PyDict([
          type |-> PyStr("object"),
          properties |-> PyDict([
            a |-> PyDict([
              type |-> PyStr("number"),
              description |-> PyStr("First number") ]),
            b |-> PyDict([
              type |-> PyStr("number"),
              description |-> PyStr("Second number") ]) ]),
          required |-> PyList(<<PyStr("a"), PyStr("b")>>),
          additionalProperties |-> PyBool(FALSE) ]) ]),
      PyDict([
        name |-> PyStr("math_subtract"),
        description |-> PyStr("Subtract second number from first number (Cloud)"),
        inputSchema |-> PyDict([
          type |-> PyStr("object"),
          properties |-> PyDict([
            a |-> PyDict([
              type |-> PyStr("number"),
              description |-> PyStr("First number (minuend)") ]),
            b |-> PyDict([
              type |-> PyStr("number"),
              description |-> PyStr("Second number (subtrahend)") ]) ]),
          required |-> PyList(<<PyStr("a"), PyStr("b")>>),
          additionalProperties |-> PyBool(FALSE) ]) ]),
      PyDict([
        name |-> PyStr("math_multiply"),
        description |-> PyStr("Multiply two numbers together (Cloud)"),
        inputSchema |-> PyDict([
          type |-> PyStr("object"),
          properties |-> PyDict([
            a |-> PyDict([
              type |-> PyStr("number"),
              description |-> PyStr("First number") ]),
            b |-> PyDict([
              type |-> PyStr("number"),
              description |-> PyStr("Second number") ]) ]),
          required |-> PyList(<<PyStr("a"), PyStr("b")>>),
          additionalProperties |-> PyBool(FALSE) ]) ]),
      PyDict([
        name |-> PyStr("math_divide"),
        description |-> PyStr("Divide first number by second number (Cloud)"),
        inputSchema |-> PyDict([
          type |-> PyStr("object"),
          properties |-> PyDict([
            a |-> PyDict([
              type |-> PyStr("number"),
              description |-> PyStr("Dividend (number to be divided)") ]),
            b |-> PyDict([
              type |-> PyStr("number"),
              description |-> PyStr("Divisor (number to divide by)") ]) ]),
          required |-> PyList(<<PyStr("a"), PyStr("b")>>),
          additionalProperties |-> PyBool(FALSE) ]) ]) >>)

(***************************************************************************)
(* Results of a tool executor: its outcome and the draws it consumed.      *)
(***************************************************************************)
Done(outcome, n) == [out |-> outcome, draws |-> n]

\* the code points of the operator symbols in the f-strings: the local server
\* writes U+00D7 and U+00F7, the remote MCP handler's file holds other bytes
TimesSign == "<U+00D7>"
DivideSign == "<U+00F7>"
McpTimesSign == "<U+0E23><U+0097>"
McpDivideSign == "<U+0E23><U+0E17>"

MaxCount == 1000
DefaultMin == PyInt(0)
DefaultMax == PyInt(100)
DefaultCount == PyInt(5)

\* range(count): the number of iterations, or TypeError for a non-integer
PyRange(count) ==
    IF count.t = "int" THEN Val(IF count.n > 0 THEN count.n ELSE 0)
    ELSE Raise("TypeError",
               "'" \o TypeName(count) \o "' object cannot be interpreted as an integer")

MinGreaterMessage(min_val, max_val) ==
    "min value (" \o Fmt(min_val) \o ") cannot be greater than max value ("
    \o Fmt(max_val) \o ")"

CannotSelectMessage(count, n) ==
    "cannot select " \o Fmt(count) \o " unique items from " \o ToString(n)
    \o " choices. Set allow_duplicates=true or reduce count."

\* {'content': [{'type': 'text', 'text': text}]}
McpContent(text) ==
    PyDict([content |-> PyList(<<PyDict([type |-> PyStr("text"), text |-> PyStr(text)])>>)])

\* call_tool, branch get_random_number
McpGetRandomNumber(arguments, rng) ==
    LET gmin == PyGet(arguments, "min", DefaultMin)
        gmax == PyGet(arguments, "max", DefaultMax)
        gt == PyCompare(">", gmin.val, gmax.val)
        result == Uniform(rng, 1, gmin.val, gmax.val)
    IN  IF gmin.raised THEN Done(gmin, 0)
        ELSE IF gt.raised THEN Done(gt, 0)
        ELSE IF gt.val
             THEN Done(Raise("ValueError", MinGreaterMessage(gmin.val, gmax.val)), 0)
        ELSE IF result.raised THEN Done(result, 0)
        ELSE Done(Val(McpContent("Random number: " \o Fmt(result.val))), 1)

\* a count check that forgets the upper limit
CountBelowOne(count) ==
    PyCompare("<", count, PyInt(1))

\* count < 1 or count > 1000
CountOutOfRange(count) ==
    LET low == PyCompare("<", count, PyInt(1))
        high == PyCompare(">", count, PyInt(MaxCount))
    IN  IF low.raised THEN low ELSE Val(low.val \/ high.val)

\* call_tool, branch get_random_number_list
McpGetRandomNumberList(arguments, rng) ==
    LET gcount == PyGet(arguments, "count", DefaultCount)
        gmin == PyGet(arguments, "min", DefaultMin)
        gmax == PyGet(arguments, "max", DefaultMax)
        count == gcount.val
        gt == PyCompare(">", gmin.val, gmax.val)
        bad == CountOutOfRange(count)
        n == PyRange(count)
        first == Uniform(rng, 1, gmin.val, gmax.val)
        numbers == UniformList(rng, gmin.val, gmax.val, n.val)
    IN  IF gcount.raised THEN Done(gcount, 0)
        ELSE IF gt.raised THEN Done(gt, 0)
        ELSE IF gt.val
             THEN Done(Raise("ValueError", MinGreaterMessage(gmin.val, gmax.val)), 0)
        ELSE IF bad.raised THEN Done(bad, 0)
        ELSE IF bad.val
             THEN Done(Raise("ValueError",
                             "count must be between 1 and 1000, got " \o Fmt(count)), 0)
        ELSE IF n.raised THEN Done(n, 0)
        ELSE IF first.raised THEN Done(first, 0)
        ELSE Done(Val(McpContent("Random numbers: " \o PyRepr(PyList(numbers)))), n.val)

\* random.choice(d) for a non-empty dict: seq[_randbelow(len(seq))] takes its
\* draw and then looks the index up as a key, which a dict decoded from JSON
\* does not have
ChoiceOfDict(rng, k, d) ==
    Raise("KeyError", Fmt(PyInt(RandBelow(rng, k, Cardinality(DOMAIN d)))))

\* the selection both get_random_choice executors share once validation passed:
\* random.choice for count == 1, else a list with or without replacement
RandomSelection(choices, count, allow_duplicates, rng) ==
    LET n == PyRange(count)
        sample == IF choices.t = "dict"
                  THEN Raise("TypeError",
                             "Population must be a sequence.  For dicts or sets, use sorted(d).")
                  ELSE Sample(rng, choices.l, count)
    IN  IF PyEq(count, PyInt(1))
        THEN IF choices.t = "dict" THEN Done(ChoiceOfDict(rng, 1, choices.d), 1)
             ELSE Done(Val([single |-> TRUE, result |-> Choice(rng, 1, choices.l)]), 1)
        ELSE IF Truthy(allow_duplicates)
        THEN IF n.raised THEN Done(n, 0)
             ELSE IF choices.t = "dict" /\ n.val > 0
             THEN Done(ChoiceOfDict(rng, 1, choices.d), 1)
             ELSE IF choices.t = "dict"
             THEN Done(Val([single |-> FALSE, result |-> EmptyList]), 0)
             ELSE Done(Val([single |-> FALSE,
                            result |-> PyList(ChoiceList(rng, 0, choices.l, n.val))]),
                       n.val)
        ELSE IF sample.raised THEN Done(sample, 0)
        ELSE Done(Val([single |-> FALSE, result |-> sample.val]), count.n)

\* the text of a selection
SelectionText(sel) ==
    IF sel.single THEN "Random choice: " \o Fmt(sel.result)
    ELSE "Random choices: " \o Fmt(sel.result)

\* count > len(choices) and not allow_duplicates
TooManyUnique(choices, count, allow_duplicates) ==
    LET n == PyLen(choices)
        gt == PyCompare(">", count, PyInt(n.val))
    IN  IF n.raised THEN n
        ELSE IF gt.raised THEN gt
        ELSE Val(gt.val /\ ~Truthy(allow_duplicates))

\* call_tool, branch get_random_choice
McpGetRandomChoice(arguments, rng) ==
    LET gchoices == PyGet(arguments, "choices", PyNone)
        choices == gchoices.val
        count == PyGet(arguments, "count", PyInt(1)).val
        allow_duplicates == PyGet(arguments, "allow_duplicates", PyBool(FALSE)).val
        many == TooManyUnique(choices, count, allow_duplicates)
        sel == RandomSelection(choices, count, allow_duplicates, rng)
    IN  IF gchoices.raised THEN Done(gchoices, 0)
        ELSE IF ~Truthy(choices)
             THEN Done(Raise("ValueError",
                             "choices parameter is required and cannot be empty"), 0)
        ELSE IF many.raised THEN Done(many, 0)
        ELSE IF many.val
             THEN Done(Raise("ValueError",
                             CannotSelectMessage(count, PyLen(choices).val)), 0)
        ELSE IF sel.out.raised THEN sel
        ELSE Done(Val(McpContent(SelectionText(sel.out.val))), sel.draws)

\* f"{a} {sign} {b} = {result}"
Expression(a, sign, b, result) ==
    Fmt(a) \o " " \o sign \o " " \o Fmt(b) \o " = " \o Fmt(result)

\* call_tool, branches math_add, math_subtract, math_multiply
McpArithmetic(arguments, sign, computed) ==
    LET ga == PyGet(arguments, "a", PyNone)
        gb == PyGet(arguments, "b", PyNone)
    IN  IF ga.raised THEN Done(ga, 0)
        ELSE IF ga.val = PyNone \/ gb.val = PyNone
             THEN Done(Raise("ValueError", "Both 'a' and 'b' parameters are required"), 0)
        ELSE IF computed.raised THEN Done(computed, 0)
        ELSE Done(Val(McpContent(Expression(ga.val, sign, gb.val, computed.val))), 0)

McpArg(arguments, key) == PyGet(arguments, key, PyNone).val

\* call_tool, branch math_divide
McpMathDivide(arguments) ==
    LET ga == PyGet(arguments, "a", PyNone)
        gb == PyGet(arguments, "b", PyNone)
        result == PyDiv(ga.val, gb.val)
    IN  IF ga.raised THEN Done(ga, 0)
        ELSE IF ga.val = PyNone \/ gb.val = PyNone
             THEN Done(Raise("ValueError", "Both 'a' and 'b' parameters are required"), 0)
        ELSE IF PyEq(gb.val, PyInt(0))
             THEN Done(Raise("ValueError", "Division by zero is not allowed"), 0)
        ELSE IF result.raised THEN Done(result, 0)
        ELSE Done(Val(McpContent(Expression(ga.val, McpDivideSign, gb.val, result.val))), 0)

\* call_tool(name, arguments) of the remote MCP handler
call_tool(name, arguments, rng) ==
    CASE name = PyStr("get_random_number") -> McpGetRandomNumber(arguments, rng)
      [] name = PyStr("get_random_number_list") -> McpGetRandomNumberList(arguments, rng)
      [] name = PyStr("get_random_choice") -> McpGetRandomChoice(arguments, rng)
      [] name = PyStr("math_add") ->
            McpArithmetic(arguments, "+",
                          PyAdd(McpArg(arguments, "a"), McpArg(arguments, "b")))
      [] name = PyStr("math_subtract") ->
            McpArithmetic(arguments, "-",
                          PySub(McpArg(arguments, "a"), McpArg(arguments, "b")))
      [] name = PyStr("math_multiply") ->
            McpArithmetic(arguments, McpTimesSign,
                          PyMul(McpArg(arguments, "a"), McpArg(arguments, "b")))
      [] name = PyStr("math_divide") -> McpMathDivide(arguments)
      [] OTHER -> Done(Raise("ValueError", "Unknown tool: " \o Fmt(name)), 0)

(***************************************************************************)
(* The remote MCP handler (mcp_server.lambda_handler).  A Python str that  *)
(* holds JSON text is PyText(tokens); the handler returns a record         *)
(* statusCode / headers / body, body being such a text.                    *)
(***************************************************************************)
PyText(toks) == [t |-> "str", toks |-> toks]

CorsHeaders ==
    [h \in {"Access-Control-Allow-Origin", "Access-Control-Allow-Methods",
            "Access-Control-Allow-Headers"} |->
        CASE h = "Access-Control-Allow-Origin" -> "*"
          [] h = "Access-Control-Allow-Methods" -> "POST, OPTIONS"
          [] h = "Access-Control-Allow-Headers" -> "Content-Type, Authorization"]

JsonHeaders ==
    [h \in DOMAIN CorsHeaders \cup {"Content-Type"} |->
        IF h = "Content-Type" THEN "application/json" ELSE CorsHeaders[h]]

HttpOk == 200
ParseErrorCode == -32700
InvalidRequestCode == -32600
MethodNotFoundCode == -32601
InternalErrorCode == -32603

\* a response that also carries a null error member
create_mcp_response_with_error(request_id, result) ==
    [statusCode |-> HttpOk,
     headers |-> JsonHeaders,
     body |-> PyText(JsonDumps(PyDict([jsonrpc |-> PyStr("2.0"),
                                       id |-> request_id,
                                       result |-> result,
                                       error |-> PyNone])))]

\* create_mcp_response(request_id, result)
create_mcp_response(request_id, result) ==
    [statusCode |-> HttpOk,
     headers |-> JsonHeaders,
     body |-> PyText(JsonDumps(PyDict([jsonrpc |-> PyStr("2.0"),
                                       id |-> request_id,
                                       result |-> result])))]

\* an error response that reports the failure in the HTTP status as well
create_mcp_error_500(request_id, code, message) ==
    [statusCode |-> 500,
     headers |-> JsonHeaders,
     body |-> PyText(JsonDumps(PyDict([jsonrpc |-> PyStr("2.0"),
                                       id |-> request_id,
                                       error |-> PyDict([code |-> PyInt(code),
                                                         message |-> PyStr(message)])])))]

\* create_mcp_error(request_id, code, message)
create_mcp_error(request_id, code, message) ==
    [statusCode |-> HttpOk,
     headers |-> JsonHeaders,
     body |-> PyText(JsonDumps(PyDict([jsonrpc |-> PyStr("2.0"),
                                       id |-> request_id,
                                       error |-> PyDict([code |-> PyInt(code),
                                                         message |-> PyStr(message)])])))]

\* the result of initialize
InitializeResult ==
    PyDict([protocolVersion |-> PyStr("2024-11-05"),
            capabilities |-> PyDict([tools |-> EmptyDict]),
            serverInfo |-> PyDict([name |-> PyStr("seans-tools-cloud"),
                                   version |-> PyStr("1.0.0")])])

\* lines 16-26: is the event a CORS preflight
IsPreflight(event) ==
    LET m == PyGet(event, "httpMethod", PyNone)
    IN  IF m.raised THEN m ELSE Val(m.val = PyStr("OPTIONS"))

\* lines 28-32: the body the handler dispatches on
ParseBody(event) ==
    LET has == PyIn("body", event)
    IN  IF has.raised THEN has
        ELSE IF ~has.val THEN Val(event)
        ELSE IF PyIndex(event, "body").raised THEN PyIndex(event, "body")
        ELSE IF event.d.body.t = "str" THEN JsonLoads(event.d.body.toks)
        ELSE Val(event.d.body)

\* an unknown method answered as an invalid request
MethodNotFoundAsInvalid(request_id, method) ==
    create_mcp_error(request_id, InvalidRequestCode, "Invalid Request")

\* lines 75-76: the answer to a method the handler does not know
MethodNotFound(request_id, method) ==
    create_mcp_error(request_id, MethodNotFoundCode, "Method not found: " \o Fmt(method))

\* lines 40-76: the dispatch on body['method']
Dispatch(body, rng) ==
    LET gmethod == PyIndex(body, "method")
        method == gmethod.val
        params == PyGet(body, "params", EmptyDict).val
        request_id == PyGet(body, "id", PyNone).val
        protocol_version == PyGet(params, "protocolVersion", PyStr("2024-11-05"))
        tool_name == PyGet(params, "name", PyNone)
        arguments == PyGet(params, "arguments", EmptyDict)
        called == call_tool(tool_name.val, arguments.val, rng)
    IN  IF gmethod.raised THEN Done(gmethod, 0)
        ELSE IF method = PyStr("initialize")
             THEN IF protocol_version.raised THEN Done(protocol_version, 0)
                  ELSE Done(Val(create_mcp_response(request_id, InitializeResult)), 0)
        ELSE IF method = PyStr("initialized")
             THEN Done(Val([statusCode |-> HttpOk, headers |-> JsonHeaders,
                            body |-> PyText(<<>>)]), 0)
        ELSE IF method = PyStr("tools/list")
             THEN Done(Val(create_mcp_response(request_id, McpListTools)), 0)
        ELSE IF method = PyStr("tools/call")
             THEN IF tool_name.raised THEN Done(tool_name, 0)
                  ELSE IF called.out.raised THEN called
                  ELSE Done(Val(create_mcp_response(request_id, called.out.val)),
                            called.draws)
        ELSE Done(Val(MethodNotFound(request_id, method)), 0)

\* lines 15-78: the body of the try block
TryBlock(event, rng) ==
    LET pre == IsPreflight(event)
        body == ParseBody(event)
        has == PyIn("method", body.val)
    IN  IF pre.raised THEN Done(pre, 0)
        ELSE IF pre.val
             THEN Done(Val([statusCode |-> HttpOk, headers |-> CorsHeaders,
                            body |-> PyText(<<>>)]), 0)
        ELSE IF body.raised THEN Done(body, 0)
        ELSE IF has.raised THEN Done(has, 0)
        ELSE IF has.val THEN Dispatch(body.val, rng)
        ELSE Done(Val(create_mcp_error(PyNone, InvalidRequestCode, "Invalid Request")), 0)

\* except clauses without the one for json.JSONDecodeError
ExceptException(tried) ==
    IF ~tried.out.raised THEN tried
    ELSE Done(Val(create_mcp_error(PyNone, InternalErrorCode,
                                   "Internal error: " \o tried.out.msg)), tried.draws)

\* lines 80-84: the except clauses
ExceptClauses(tried) ==
    IF ~tried.out.raised THEN tried
    ELSE IF tried.out.exc = "JSONDecodeError"
         THEN Done(Val(create_mcp_error(PyNone, ParseErrorCode, "Parse error")),
                   tried.draws)
    ELSE Done(Val(create_mcp_error(PyNone, InternalErrorCode,
                                   "Internal error: " \o tried.out.msg)), tried.draws)

\* lambda_handler(event, context)
lambda_handler(event, rng) == ExceptClauses(TryBlock(event, rng))

(***************************************************************************)
(* The local stdio server (seans_tools_mcp_server.handle_call_tool).  It   *)
(* returns a list of TextContent items, or raises.                         *)
(***************************************************************************)
TextContent(text) == [type |-> "text", text |-> text]

\* arguments.get(key, default) if arguments else default
LocalGet(arguments, key, default) ==
    IF Truthy(arguments) THEN PyGet(arguments, key, default) ELSE Val(default)

\* handle_call_tool, branch get_random_number
LocalGetRandomNumber(arguments, rng) ==
    LET gmin == LocalGet(arguments, "min", DefaultMin)
        gmax == LocalGet(arguments, "max", DefaultMax)
        gt == PyCompare(">", gmin.val, gmax.val)
        result == Uniform(rng, 1, gmin.val, gmax.val)
    IN  IF gmin.raised THEN Done(gmin, 0)
        ELSE IF gt.raised THEN Done(gt, 0)
        ELSE IF gt.val
             THEN Done(Val(<<TextContent("Error: "
                                         \o MinGreaterMessage(gmin.val, gmax.val))>>), 0)
        ELSE IF result.raised THEN Done(result, 0)
        ELSE Done(Val(<<TextContent("Random number: " \o Fmt(result.val))>>), 1)

\* handle_call_tool, branch get_random_number_list
LocalGetRandomNumberList(arguments, rng) ==
    LET gcount == LocalGet(arguments, "count", DefaultCount)
        gmin == LocalGet(arguments, "min", DefaultMin)
        gmax == LocalGet(arguments, "max", DefaultMax)
        count == gcount.val
        gt == PyCompare(">", gmin.val, gmax.val)
        bad == CountOutOfRange(count)
        n == PyRange(count)
        first == Uniform(rng, 1, gmin.val, gmax.val)
        numbers == UniformList(rng, gmin.val, gmax.val, n.val)
    IN  IF gcount.raised THEN Done(gcount, 0)
        ELSE IF gt.raised THEN Done(gt, 0)
        ELSE IF gt.val
             THEN Done(Val(<<TextContent("Error: "
                                         \o MinGreaterMessage(gmin.val, gmax.val))>>), 0)
        ELSE IF bad.raised THEN Done(bad, 0)
        ELSE IF bad.val
             THEN Done(Val(<<TextContent("Error: count must be between 1 and 1000, got "
                                         \o Fmt(count))>>), 0)
        ELSE IF n.raised THEN Done(n, 0)
        ELSE IF first.raised THEN Done(first, 0)
        ELSE Done(Val(<<TextContent("Random numbers: " \o PyRepr(PyList(numbers)))>>),
                  n.val)

\* not arguments or key not in arguments (for one or two keys)
LocalMissing(arguments, keys) ==
    ~Truthy(arguments) \/ \E k \in keys : ~PyIn(k, arguments).val

\* handle_call_tool, branch get_random_choice
LocalGetRandomChoice(arguments, rng) ==
    LET choices == arguments.d.choices
        count == PyGet(arguments, "count", PyInt(1)).val
        allow_duplicates == PyGet(arguments, "allow_duplicates", PyBool(FALSE)).val
        many == TooManyUnique(choices, count, allow_duplicates)
        sel == RandomSelection(choices, count, allow_duplicates, rng)
    IN  IF LocalMissing(arguments, {"choices"})
        THEN Done(Val(<<TextContent("Error: 'choices' parameter is required")>>), 0)
        ELSE IF ~Truthy(choices)
             THEN Done(Val(<<TextContent("Error: choices list cannot be empty")>>), 0)
        ELSE IF many.raised THEN Done(many, 0)
        ELSE IF many.val
             THEN Done(Val(<<TextContent("Error: "
                                         \o CannotSelectMessage(count, PyLen(choices).val))>>), 0)
        ELSE IF sel.out.raised THEN sel
        ELSE Done(Val(<<TextContent(SelectionText(sel.out.val))>>), sel.draws)

\* handle_call_tool, branches math_add, math_subtract, math_multiply
LocalArithmetic(arguments, sign, computed) ==
    IF LocalMissing(arguments, {"a", "b"})
    THEN Done(Val(<<TextContent("Error: Both 'a' and 'b' parameters are required")>>), 0)
    ELSE IF computed.raised THEN Done(computed, 0)
    ELSE Done(Val(<<TextContent(Expression(arguments.d.a, sign, arguments.d.b,
                                           computed.val))>>), 0)

\* handle_call_tool, branch math_divide
LocalMathDivide(arguments) ==
    LET result == PyDiv(arguments.d.a, arguments.d.b)
    IN  IF LocalMissing(arguments, {"a", "b"})
        THEN Done(Val(<<TextContent("Error: Both 'a' and 'b' parameters are required")>>), 0)
        ELSE IF PyEq(arguments.d.b, PyInt(0))
             THEN Done(Val(<<TextContent("Error: Division by zero is not allowed")>>), 0)
        ELSE IF result.raised THEN Done(result, 0)
        ELSE Done(Val(<<TextContent(Expression(arguments.d.a, DivideSign, arguments.d.b,
                                               result.val))>>), 0)

\* handle_call_tool(name, arguments) of the local stdio server
LocalCallTool(name, arguments, rng) ==
    CASE name = PyStr("get_random_number") -> LocalGetRandomNumber(arguments, rng)
      [] name = PyStr("get_random_number_list") -> LocalGetRandomNumberList(arguments, rng)
      [] name = PyStr("get_random_choice") -> LocalGetRandomChoice(arguments, rng)
      [] name = PyStr("math_add") ->
            LocalArithmetic(arguments, "+", PyAdd(arguments.d.a, arguments.d.b))
      [] name = PyStr("math_subtract") ->
            LocalArithmetic(arguments, "-", PySub(arguments.d.a, arguments.d.b))
      [] name = PyStr("math_multiply") ->
            LocalArithmetic(arguments, TimesSign, PyMul(arguments.d.a, arguments.d.b))
      [] name = PyStr("math_divide") -> LocalMathDivide(arguments)
      [] OTHER -> Done(Val(<<TextContent("Unknown tool: " \o Fmt(name))>>), 0)

(***************************************************************************)
(* The remote proxy (cloud_mcp_proxy.handle_call_tool).  It issues one     *)
(* HTTP POST, suspends until the POST has an outcome, and turns the        *)
(* outcome into one TextContent item.                                      *)
(***************************************************************************)
\* sys.argv[1].rstrip('/')
API_BASE_URL == "https://api.example/prod"

\* an endpoint map with an entry for a tool no descriptor names
endpoint_map_with_power ==
    ("get_random_number" :> "/random/number")
    @@ ("get_random_number_list" :> "/random/list")
    @@ ("get_random_choice" :> "/random/choice")
    @@ ("math_add" :> "/math/add")
    @@ ("math_subtract" :> "/math/subtract")
    @@ ("math_multiply" :> "/math/multiply")
    @@ ("math_divide" :> "/math/divide")
    @@ ("math_power" :> "/math/power")

endpoint_map ==
    ("get_random_number" :> "/random/number")
    @@ ("get_random_number_list" :> "/random/list")
    @@ ("get_random_choice" :> "/random/choice")
    @@ ("math_add" :> "/math/add")
    @@ ("math_subtract" :> "/math/subtract")
    @@ ("math_multiply" :> "/math/multiply")
    @@ ("math_divide" :> "/math/divide")

\* name in endpoint_map
InEndpointMap(name) == name.t = "str" /\ name.s \in DOMAIN endpoint_map

\* an early return that words the unknown name as the other errors are worded
ProxyStartErrorText(name, arguments) ==
    IF ~InEndpointMap(name)
    THEN [returned |-> TRUE, val |-> <<TextContent("Error: unknown tool " \o Fmt(name))>>]
    ELSE [returned |-> FALSE,
          post |-> [url |-> API_BASE_URL \o endpoint_map[name.s],
                    json |-> IF Truthy(arguments) THEN arguments ELSE EmptyDict]]

\* lines 210-222: the early return for an unknown name, or the POST
ProxyStart(name, arguments) ==
    IF ~InEndpointMap(name)
    THEN [returned |-> TRUE, val |-> <<TextContent("Unknown tool: " \o Fmt(name))>>]
    ELSE [returned |-> FALSE,
          post |-> [url |-> API_BASE_URL \o endpoint_map[name.s],
                    json |-> IF Truthy(arguments) THEN arguments ELSE EmptyDict]]

RECURSIVE JsonString(_)
RECURSIVE JsonItems(_, _, _)
RECURSIVE JsonPairs(_, _)

JsonItems(l, lo, hi) ==
    IF lo > hi THEN ""
    ELSE IF lo = hi THEN JsonString(l[lo])
    ELSE LET mid == (lo + hi) \div 2
         IN  JsonItems(l, lo, mid) \o ", " \o JsonItems(l, mid + 1, hi)

JsonPairs(v, ks) ==
    IF ks = <<>> THEN ""
    ELSE "\"" \o Head(ks) \o "\": " \o JsonString(v.d[Head(ks)])
         \o (IF Len(ks) > 1 THEN ", " ELSE "") \o JsonPairs(v, Tail(ks))

\* json.dumps(v) as a Python string
JsonString(v) ==
    CASE v.t = "none" -> "null"
      [] v.t = "bool" -> IF v.b THEN "true" ELSE "false"
      [] v.t = "str" -> "\"" \o v.s \o "\""
      [] v.t = "list" -> "[" \o JsonItems(v.l, 1, Len(v.l)) \o "]"
      [] v.t = "dict" -> "{" \o JsonPairs(v, KeysOf(v)) \o "}"
      [] OTHER -> PyRepr(v)

\* the content types that start with 'application/json'
JsonContentTypes == {"application/json", "application/json; charset=utf-8"}

StatusOk == 200

\* TextContent(type="text", text=v): pydantic rejects a text that is no str
MakeText(v) ==
    IF v.t = "str" THEN Val(<<TextContent(v.s)>>)
    ELSE Raise("ValidationError", "1 validation error for TextContent")

\* a 200 branch that looks for 'result' before 'expression'
ProxyOnOkResultFirst(http) ==
    LET result == JsonLoads(http.toks)
        hasExpression == PyIn("expression", result.val)
        hasResult == PyIn("result", result.val)
    IN  IF result.raised THEN result
        ELSE IF hasResult.raised THEN hasResult
        ELSE IF hasResult.val
             THEN Val(<<TextContent("Result: " \o Fmt(result.val.d.result))>>)
        ELSE IF hasExpression.val THEN MakeText(result.val.d.expression)
        ELSE Val(<<TextContent("Success: " \o JsonString(result.val))>>)

\* lines 224-231: the text for a 200 response
ProxyOnOk(http) ==
    LET result == JsonLoads(http.toks)
        hasExpression == PyIn("expression", result.val)
        hasResult == PyIn("result", result.val)
    IN  IF result.raised THEN result
        ELSE IF hasExpression.raised THEN hasExpression
        ELSE IF hasExpression.val THEN MakeText(result.val.d.expression)
        ELSE IF hasResult.val
             THEN Val(<<TextContent("Result: " \o Fmt(result.val.d.result))>>)
        ELSE Val(<<TextContent("Success: " \o JsonString(result.val))>>)

\* an error branch that decodes every body and falls back to the raw text
\* of a body that does not decode
ProxyOnErrorByBody(http) ==
    LET decoded == JsonLoads(http.toks)
        error_data == IF decoded.raised THEN PyDict([error |-> PyStr(http.text)])
                      ELSE decoded.val
        error == PyGet(error_data, "error", PyStr("Unknown error"))
    IN  IF error.raised THEN error
        ELSE Val(<<TextContent("Error: " \o Fmt(error.val))>>)

\* lines 232-234: the text for any other status
ProxyOnError(http) ==
    LET error_data == IF http.ctype \in JsonContentTypes THEN JsonLoads(http.toks)
                      ELSE Val(PyDict([error |-> PyStr(http.text)]))
        error == PyGet(error_data.val, "error", PyStr("Unknown error"))
    IN  IF error_data.raised THEN error_data
        ELSE IF error.raised THEN error
        ELSE Val(<<TextContent("Error: " \o Fmt(error.val))>>)

\* lines 216-241: the try block after the POST has an outcome, and the
\* three except clauses
ProxyFinish(outcome) ==
    LET tried == CASE outcome.kind = "response" ->
                        IF outcome.status = StatusOk THEN ProxyOnOk(outcome)
                        ELSE ProxyOnError(outcome)
                   [] outcome.kind = "timeout" -> Raise("TimeoutException", outcome.msg)
                   [] outcome.kind = "request_error" -> Raise("RequestError", outcome.msg)
                   [] OTHER -> Raise(outcome.exc, outcome.msg)
    IN  IF ~tried.raised THEN tried
        ELSE IF tried.exc = "TimeoutException"
             THEN Val(<<TextContent("Error: Request timed out")>>)
        ELSE IF tried.exc = "RequestError"
             THEN Val(<<TextContent("Error: Network request failed - " \o tried.msg)>>)
        ELSE Val(<<TextContent("Error: " \o tried.msg)>>)

(***************************************************************************)
(* The REST handlers (lambda_handler of math_add.py, ...) behind the       *)
(* paths of the proxy.  Each returns statusCode / headers / body, the body *)
(* a JSON text.                                                            *)
(***************************************************************************)
RestHeaders ==
    [h \in {"Content-Type", "Access-Control-Allow-Origin"} |->
        IF h = "Content-Type" THEN "application/json" ELSE "*"]

\* a response whose body is json.dumps(v)
RestResponse(status, v) ==
    [statusCode |-> status, headers |-> RestHeaders, body |-> PyText(JsonDumps(v))]

\* a response whose body is {'error': message}
RestError(status, message) == RestResponse(status, PyDict([error |-> PyStr(message)]))

\* the body the handler works on: event['body'], decoded if it is a str, or
\* the event itself
RestBody(event) == ParseBody(event)

\* isinstance(v, (int, float)) and isinstance(v, int)
IsIntOrFloat(v) == v.t \in {"int", "float", "bool"}
IsInt(v) == v.t \in {"int", "bool"}

\* the except clauses each REST handler ends with
RestExcept(tried) ==
    IF ~tried.out.raised THEN tried
    ELSE IF tried.out.exc = "JSONDecodeError"
         THEN Done(Val(RestError(400, "Invalid JSON in request body")), tried.draws)
    ELSE Done(Val(RestError(500, "Internal server error")), tried.draws)

\* an addition that reports its result without the expression
RestMathAddNoExpression(event) ==
    LET body == RestBody(event)
        hasA == PyIn("a", body.val)
        hasB == PyIn("b", body.val)
        a == PyIndex(body.val, "a")
        b == PyIndex(body.val, "b")
        result == PyAdd(a.val, b.val)
    IN  RestExcept(
          IF body.raised THEN Done(body, 0)
          ELSE IF hasA.raised THEN Done(hasA, 0)
          ELSE IF ~hasA.val \/ ~hasB.val
               THEN Done(Val(RestError(400, "Both 'a' and 'b' parameters are required")), 0)
          ELSE IF a.raised THEN Done(a, 0)
          ELSE IF b.raised THEN Done(b, 0)
          ELSE IF ~IsIntOrFloat(a.val) \/ ~IsIntOrFloat(b.val)
               THEN Done(Val(RestError(400, "Both 'a' and 'b' must be numbers")), 0)
          ELSE IF result.raised THEN Done(result, 0)
          ELSE Done(Val(RestResponse(200,
                 PyDict([operation |-> PyStr("add"),
                         a |-> a.val,
                         b |-> b.val,
                         result |-> result.val]))), 0))

\* math_add.lambda_handler
RestMathAdd(event) ==
    LET body == RestBody(event)
        hasA == PyIn("a", body.val)
        hasB == PyIn("b", body.val)
        a == PyIndex(body.val, "a")
        b == PyIndex(body.val, "b")
        result == PyAdd(a.val, b.val)
    IN  RestExcept(
          IF body.raised THEN Done(body, 0)
          ELSE IF hasA.raised THEN Done(hasA, 0)
          ELSE IF ~hasA.val \/ ~hasB.val
               THEN Done(Val(RestError(400, "Both 'a' and 'b' parameters are required")), 0)
          ELSE IF a.raised THEN Done(a, 0)
          ELSE IF b.raised THEN Done(b, 0)
          ELSE IF ~IsIntOrFloat(a.val) \/ ~IsIntOrFloat(b.val)
               THEN Done(Val(RestError(400, "Both 'a' and 'b' must be numbers")), 0)
          ELSE IF result.raised THEN Done(result, 0)
          ELSE Done(Val(RestResponse(200,
                 PyDict([operation |-> PyStr("add"),
                         a |-> a.val,
                         b |-> b.val,
                         result |-> result.val,
                         expression |-> PyStr(Expression(a.val, "+", b.val,
                                                         result.val))]))), 0))

\* get_random_number.lambda_handler
RestGetRandomNumber(event, rng) ==
    LET body == RestBody(event)
        gmin == LocalGet(body.val, "min", DefaultMin)
        gmax == LocalGet(body.val, "max", DefaultMax)
        gt == PyCompare(">", gmin.val, gmax.val)
        result == Uniform(rng, 1, gmin.val, gmax.val)
    IN  RestExcept(
          IF body.raised THEN Done(body, 0)
          ELSE IF gmin.raised THEN Done(gmin, 0)
          ELSE IF ~IsIntOrFloat(gmin.val) \/ ~IsIntOrFloat(gmax.val)
               THEN Done(Val(RestError(400, "Both 'min' and 'max' must be numbers")), 0)
          ELSE IF gt.raised THEN Done(gt, 0)
          ELSE IF gt.val
               THEN Done(Val(RestError(400, MinGreaterMessage(gmin.val, gmax.val))), 0)
          ELSE IF result.raised THEN Done(result, 0)
          ELSE Done(Val(RestResponse(200,
                 PyDict([operation |-> PyStr("get_random_number"),
                         min |-> gmin.val,
                         max |-> gmax.val,
                         result |-> result.val]))), 1))

\* get_random_number_list.lambda_handler
RestGetRandomNumberList(event, rng) ==
    LET body == RestBody(event)
        gcount == LocalGet(body.val, "count", DefaultCount)
        gmin == LocalGet(body.val, "min", DefaultMin)
        gmax == LocalGet(body.val, "max", DefaultMax)
        count == gcount.val
        bad == CountOutOfRange(count)
        gt == PyCompare(">", gmin.val, gmax.val)
        numbers == UniformList(rng, gmin.val, gmax.val, count.n)
    IN  RestExcept(
          IF body.raised THEN Done(body, 0)
          ELSE IF gcount.raised THEN Done(gcount, 0)
          ELSE IF ~IsInt(count) \/ bad.val
               THEN Done(Val(RestError(400, "count must be an integer between 1 and 1000")), 0)
          ELSE IF ~IsIntOrFloat(gmin.val) \/ ~IsIntOrFloat(gmax.val)
               THEN Done(Val(RestError(400, "Both 'min' and 'max' must be numbers")), 0)
          ELSE IF gt.raised THEN Done(gt, 0)
          ELSE IF gt.val
               THEN Done(Val(RestError(400, MinGreaterMessage(gmin.val, gmax.val))), 0)
          ELSE Done(Val(RestResponse(200,
                 PyDict([operation |-> PyStr("get_random_number_list"),
                         count |-> count,
                         min |-> gmin.val,
                         max |-> gmax.val,
                         result |-> PyList(numbers)]))), count.n))

\* get_random_choice.lambda_handler
RestGetRandomChoice(event, rng) ==
    LET body == RestBody(event)
        has == PyIn("choices", body.val)
        gchoices == PyIndex(body.val, "choices")
        choices == gchoices.val
        gcount == PyGet(body.val, "count", PyInt(1))
        count == gcount.val
        allow_duplicates == PyGet(body.val, "allow_duplicates", PyBool(FALSE)).val
        sel == RandomSelection(choices, count, allow_duplicates, rng)
    IN  RestExcept(
          IF body.raised THEN Done(body, 0)
          ELSE IF ~Truthy(body.val)
               THEN Done(Val(RestError(400, "'choices' parameter is required")), 0)
          ELSE IF has.raised THEN Done(has, 0)
          ELSE IF ~has.val
               THEN Done(Val(RestError(400, "'choices' parameter is required")), 0)
          ELSE IF gchoices.raised THEN Done(gchoices, 0)
          ELSE IF gcount.raised THEN Done(gcount, 0)
          ELSE IF choices.t # "list" \/ Len(choices.l) = 0
               THEN Done(Val(RestError(400, "choices must be a non-empty array")), 0)
          ELSE IF ~IsInt(count) \/ count.n < 1
               THEN Done(Val(RestError(400, "count must be a positive integer")), 0)
          ELSE IF count.n > Len(choices.l) /\ ~Truthy(allow_duplicates)
               THEN Done(Val(RestError(400, CannotSelectMessage(count, Len(choices.l)))), 0)
          ELSE IF sel.out.raised THEN sel
          ELSE Done(Val(RestResponse(200,
                 PyDict([operation |-> PyStr("get_random_choice"),
                         choices_count |-> PyInt(Len(choices.l)),
                         count |-> count,
                         allow_duplicates |-> allow_duplicates,
                         result |-> sel.out.val.result]))), sel.draws))

\* the paths whose handler the repository holds
RestPaths == {"/math/add", "/random/number", "/random/list", "/random/choice"}

\* the API's routes: the handler integrated at each path
RestServe(path, event, rng) ==
    CASE path = "/math/add" -> RestMathAdd(event)
      [] path = "/random/number" -> RestGetRandomNumber(event, rng)
      [] path = "/random/list" -> RestGetRandomNumberList(event, rng)
      [] path = "/random/choice" -> RestGetRandomChoice(event, rng)

(***************************************************************************)
(* The requests the model sends.  Absent marks a key left out of a dict.   *)
(***************************************************************************)
Absent == [t |-> "absent"]

\* the dict with the given <<key, value>> pairs, Absent values left out
MkDict(pairs) ==
    LET present == {i \in 1..Len(pairs) : pairs[i][2] # Absent}
    IN  PyDict([k \in {pairs[i][1] : i \in present} |->
                  pairs[CHOOSE i \in present : pairs[i][1] = k][2]])

ToolNames ==
    {"get_random_number", "get_random_number_list", "get_random_choice",
     "math_add", "math_subtract", "math_multiply", "math_divide"}
MathTools == {"math_add", "math_subtract", "math_multiply", "math_divide"}

\* names no binding registers, and non-string names
UnknownNames == {PyStr("math_power"), PyStr("nope"), PyNone, PyInt(7)}

AVals == {Absent, PyNone, PyInt(0), PyInt(3), PyInt(-1), PyFloat(4), PyStr("2")}
BVals == {Absent, PyNone, PyInt(0), PyInt(2), PyInt(-1), PyFloat(0), PyFloat(4), PyStr("3")}
MathArgs == {MkDict(<<<<"a", a>>, <<"b", b>>>>) : a \in AVals, b \in BVals}

MinVals == {Absent, PyNone, PyInt(0), PyInt(5), PyInt(101), PyStr("x")}
MaxVals == {Absent, PyInt(0), PyInt(5), PyInt(200), PyStr("x")}
NumberArgs == {MkDict(<<<<"min", lo>>, <<"max", hi>>>>) : lo \in MinVals, hi \in MaxVals}

CountVals ==
    {Absent, PyInt(-1), PyInt(0), PyInt(1), PyInt(2), PyInt(MaxCount),
     PyInt(MaxCount + 1), PyFloat(4), PyStr("2")}
\* the counts at and beyond the upper limit go with one range that is in
\* order and one that is not
ListArgs ==
    {MkDict(<<<<"count", c>>, <<"min", lo>>, <<"max", hi>>>>) :
        c \in {v \in CountVals : v.t # "int" \/ v.n < MaxCount},
        lo \in {Absent, PyInt(5), PyInt(101)}, hi \in {Absent, PyInt(3)}}
    \cup {MkDict(<<<<"count", c>>, <<"min", lo>>, <<"max", PyInt(3)>>>>) :
            c \in {PyInt(MaxCount), PyInt(MaxCount + 1)}, lo \in {Absent, PyInt(5)}}

ChoicesVals ==
    {Absent, PyNone, EmptyList, PyInt(5),
     PyList(<<PyStr("a")>>), PyList(<<PyStr("a"), PyStr("b")>>),
     PyList(<<PyStr("a"), PyStr("a")>>), PyList(<<PyStr("a"), PyInt(1), PyStr("c")>>),
     PyDict([a |-> PyInt(1)])}
ChoiceCounts ==
    {Absent, PyInt(-1), PyInt(0), PyInt(1), PyInt(2), PyInt(3), PyInt(4), PyStr("2")}
ChoiceArgs ==
    {MkDict(<<<<"choices", ch>>, <<"count", c>>, <<"allow_duplicates", d>>>>) :
        ch \in ChoicesVals, c \in ChoiceCounts, d \in {Absent, PyBool(TRUE), PyBool(FALSE)}}

\* the values of `arguments` that are not an argument map with entries
NoArgs == {Absent, PyNone, EmptyDict}

\* the (name, arguments) pairs of the tool calls
ToolCalls ==
    ({PyStr(n) : n \in MathTools} \X (MathArgs \cup NoArgs))
    \cup ({PyStr("get_random_number")} \X (NumberArgs \cup NoArgs))
    \cup ({PyStr("get_random_number_list")} \X (ListArgs \cup NoArgs))
    \cup ({PyStr("get_random_choice")} \X (ChoiceArgs \cup NoArgs))
    \cup (UnknownNames \X {Absent, MkDict(<<<<"a", PyInt(1)>>, <<"b", PyInt(2)>>>>)})

\* a small set of calls, sent with every id and in every event form
CoreCalls ==
    {<<PyStr("math_add"), MkDict(<<<<"a", PyInt(2)>>, <<"b", PyInt(3)>>>>)>>,
     <<PyStr("math_divide"), MkDict(<<<<"a", PyInt(3)>>, <<"b", PyInt(0)>>>>)>>,
     <<PyStr("get_random_number"), MkDict(<<<<"min", PyInt(5)>>, <<"max", PyInt(0)>>>>)>>,
     <<PyStr("get_random_choice"), MkDict(<<<<"choices", PyList(<<PyStr("a")>>)>>>>)>>,
     <<PyStr("nope"), Absent>>}

CallParams(call) == MkDict(<<<<"name", call[1]>>, <<"arguments", call[2]>>>>)

Ids == {Absent, PyNone, PyInt(1), PyStr("req-7")}

Envelope(method, id, params) ==
    MkDict(<<<<"jsonrpc", PyStr("2.0")>>, <<"id", id>>, <<"method", method>>,
             <<"params", params>>>>)

\* the params of the requests that are not tool calls
PlainParams ==
    {Absent, PyNone, EmptyDict, PyList(<<>>),
     MkDict(<<<<"protocolVersion", PyStr("2025-03-26")>>>>),
     MkDict(<<<<"protocolVersion", PyStr("2024-11-05")>>,
              <<"clientInfo", PyDict([name |-> PyStr("c"), version |-> PyStr("1")])>>>>)}

Methods ==
    {Absent, PyNone, PyInt(3), PyStr("initialize"), PyStr("initialized"),
     PyStr("tools/list"), PyStr("ping"), PyStr("resources/list"), PyStr("tools/call")}

\* the JSON-RPC envelopes (decoded)
Envelopes ==
    {Envelope(PyStr("tools/call"), PyInt(1), CallParams(call)) : call \in ToolCalls}
    \cup {Envelope(PyStr("tools/call"), id, CallParams(call)) :
            id \in Ids, call \in CoreCalls}
    \cup {Envelope(m, id, p) : m \in Methods, id \in Ids, p \in PlainParams}

\* JSON values that are no object, and objects without a method
NonEnvelopes ==
    {PyInt(5), PyNone, PyBool(TRUE), PyFloat(3), PyStr("abc"), PyStr("xmethodx"),
     EmptyList, PyList(<<PyInt(1)>>), PyList(<<PyStr("method")>>), EmptyDict,
     MkDict(<<<<"id", PyInt(1)>>>>)}

\* the envelopes sent in every event form
CoreEnvelopes ==
    {Envelope(PyStr("tools/call"), id, CallParams(call)) : id \in Ids, call \in CoreCalls}
    \cup {Envelope(m, id, p) : m \in Methods, id \in Ids, p \in {Absent, PyNone}}
    \cup NonEnvelopes

\* texts that are not JSON: every proper prefix of a written envelope, and
\* texts with a stray or missing token
Malformed ==
    LET good == JsonDumps(Envelope(PyStr("tools/list"), PyInt(1), EmptyDict))
    IN  {SubSeq(good, 1, k) : k \in 0..(Len(good) - 1)}
        \cup {good \o <<RBrace>>, good \o good, <<Comma>>, <<Colon, PyInt(1)>>,
              <<LBrace, PyStr("method"), PyStr("ping"), RBrace>>,
              <<LBrace, PyStr("method"), Colon, PyStr("ping"), Comma, RBrace>>,
              <<LBrace, PyInt(1), Colon, PyInt(2), RBrace>>,
              <<LBracket, PyInt(1), Comma, RBracket>>,
              <<LBracket, PyInt(1), PyInt(2), RBracket>>}

HttpMethods == {Absent, PyStr("POST"), PyStr("OPTIONS")}

\* an API Gateway event: the body is a JSON text or an already decoded value
Event(httpMethod, body) == MkDict(<<<<"httpMethod", httpMethod>>, <<"body", body>>>>)

\* the events the remote MCP handler is invoked with
McpEvents ==
    {Event(PyStr("POST"), PyText(JsonDumps(e))) : e \in Envelopes \cup NonEnvelopes}
    \cup {Event(h, PyText(JsonDumps(e))) : h \in HttpMethods, e \in CoreEnvelopes}
    \cup {Event(h, e) : h \in HttpMethods, e \in {c \in CoreEnvelopes : c.t # "str"}}
    \cup {Event(h, PyText(t)) : h \in HttpMethods, t \in Malformed}
    \cup {e \in CoreEnvelopes : e.t = "dict"}
    \cup {MkDict(<<<<"httpMethod", PyStr("OPTIONS")>>>>), PyNone, EmptyList}

(***************************************************************************)
(* The state machine: a request arrives at a binding, the binding's        *)
(* handler runs to its return, and the invocation ends.                    *)
(***************************************************************************)
NoResponse == [out |-> "none"]
NoReply == [kind |-> "none"]

\* a process that has answered nothing; seed is the stream its generator
\* yields and drawn the number of draws taken from it
NewSession(seed) == [log |-> <<>>, seed |-> seed, drawn |-> 0]

Init ==
    /\ pc = "idle"
    /\ binding = "none"
    /\ request = PyNone
    /\ response = NoResponse
    /\ draws = 0
    /\ posts = <<>>
    /\ reply = NoReply
    /\ session = NewSession(<<>>)

\* the gateway invokes the remote MCP handler with an event
McpReceive ==
    /\ pc = "idle"
    /\ \E event \in McpEvents : request' = event
    /\ binding' = "mcp"
    /\ pc' = "received"
    /\ UNCHANGED <<response, draws, posts, reply, session>>

\* lambda_handler runs on the event, drawing from the random source
McpHandle ==
    /\ pc = "received" /\ binding = "mcp"
    /\ \E rng \in Rngs :
         LET r == lambda_handler(request, rng)
         IN  response' = r.out /\ draws' = r.draws
    /\ pc' = "responded"
    /\ UNCHANGED <<binding, request, posts, reply, session>>

\* the calls the MCP library hands to a stdio binding: a name and an
\* argument map or None
StdioCall(name, arguments) ==
    [method |-> "tools/call", name |-> name, arguments |-> arguments]

StdioCalls ==
    {StdioCall(c[1], IF c[2] = Absent THEN PyNone ELSE c[2]) :
        c \in {d \in ToolCalls : d[1].t = "str"}}

\* the tools/list request of a stdio binding
ListRequest == [method |-> "tools/list"]

\* the MCP library calls handle_list_tools of the local server
LocalList ==
    /\ pc = "idle"
    /\ request' = ListRequest
    /\ binding' = "local"
    /\ response' = Val(LocalListTools)
    /\ pc' = "responded"
    /\ UNCHANGED <<draws, posts, reply, session>>

\* the MCP library calls handle_list_tools of the proxy
ProxyList ==
    /\ pc = "idle"
    /\ request' = ListRequest
    /\ binding' = "proxy"
    /\ response' = Val(ProxyListTools)
    /\ pc' = "responded"
    /\ UNCHANGED <<draws, posts, reply, session>>

\* the MCP library calls handle_call_tool of the local server
LocalReceive ==
    /\ pc = "idle"
    /\ \E call \in StdioCalls : request' = call
    /\ binding' = "local"
    /\ pc' = "received"
    /\ UNCHANGED <<response, draws, posts, reply, session>>

\* handle_call_tool of the local server runs to its return
LocalHandle ==
    /\ pc = "received" /\ binding = "local"
    /\ \E rng \in Rngs :
         LET r == LocalCallTool(request.name, request.arguments, rng)
         IN  response' = r.out /\ draws' = r.draws
    /\ pc' = "responded"
    /\ UNCHANGED <<binding, request, posts, reply, session>>

\* an HTTP response with a JSON body
JsonResponse(status, ctype, v) ==
    [kind |-> "response", status |-> status, ctype |-> ctype,
     text |-> JsonString(v), toks |-> JsonDumps(v)]

\* an HTTP response whose body is text that is not JSON
TextResponse(status, ctype, text) ==
    [kind |-> "response", status |-> status, ctype |-> ctype,
     text |-> text, toks |-> <<Punct("<")>>]

\* the outcomes a POST of the proxy can have
HttpOutcomes ==
    {JsonResponse(200, "application/json",
                  PyDict([operation |-> PyStr("add"), a |-> PyInt(2), b |-> PyInt(3),
                          result |-> PyInt(5), expression |-> PyStr("2 + 3 = 5")])),
     JsonResponse(200, "application/json",
                  PyDict([operation |-> PyStr("get_random_number"), min |-> PyInt(0),
                          max |-> PyInt(5), result |-> PyFloat(5)])),
     JsonResponse(200, "application/json",
                  PyDict([operation |-> PyStr("get_random_choice"),
                          result |-> PyList(<<PyStr("a"), PyInt(1)>>)])),
     JsonResponse(200, "application/json", PyDict([operation |-> PyStr("noop")])),
     JsonResponse(200, "application/json", PyDict([expression |-> PyInt(5)])),
     JsonResponse(200, "application/json", PyList(<<PyInt(1)>>)),
     JsonResponse(200, "application/json", PyInt(5)),
     TextResponse(200, "text/html", "<html>ok</html>"),
     JsonResponse(400, "application/json",
                  PyDict([error |-> PyStr("Both 'a' and 'b' parameters are required")])),
     JsonResponse(500, "application/json; charset=utf-8",
                  PyDict([error |-> PyStr("Internal server error")])),
     JsonResponse(403, "application/json", PyDict([message |-> PyStr("Forbidden")])),
     JsonResponse(400, "application/json", PyList(<<>>)),
     JsonResponse(404, "text/plain", PyDict([error |-> PyStr("hidden")])),
     TextResponse(502, "text/html", "<html>Bad Gateway</html>"),
     TextResponse(502, "application/json", "Bad Gateway"),
     TextResponse(504, "", "Gateway Timeout"),
     [kind |-> "timeout", msg |-> "The read operation timed out"],
     [kind |-> "request_error", msg |-> "All connection attempts failed"],
     [kind |-> "exception", exc |-> "InvalidURL", msg |-> "Invalid port"]}

\* the calls sent to the proxy: every registered and some unknown names
ProxyCalls ==
    {StdioCall(n, a) :
        n \in {PyStr(t) : t \in ToolNames} \cup {u \in UnknownNames : u.t = "str"},
        a \in {PyNone, EmptyDict, MkDict(<<<<"a", PyInt(2)>>, <<"b", PyInt(3)>>>>)}}

\* the additions sent through the proxy to the REST handler
ProxyAdditions == {StdioCall(PyStr("math_add"), a) : a \in MathArgs}

\* the MCP library calls handle_call_tool of the proxy
ProxyReceive ==
    /\ pc = "idle"
    /\ \E call \in ProxyCalls \cup ProxyAdditions : request' = call
    /\ binding' = "proxy"
    /\ pc' = "received"
    /\ UNCHANGED <<response, draws, posts, reply, session>>

\* the proxy returns at once for an unknown name, else issues its POST and
\* suspends
ProxyIssue ==
    /\ pc = "received" /\ binding = "proxy"
    /\ LET started == ProxyStart(request.name, request.arguments)
       IN  IF started.returned
           THEN /\ response' = Val(started.val)
                /\ pc' = "responded"
                /\ posts' = posts
           ELSE /\ posts' = Append(posts, started.post)
                /\ pc' = "awaiting"
                /\ response' = response
    /\ UNCHANGED <<binding, request, draws, reply, session>>

\* a resumption that issues the POST once more after a timeout
ProxyResumeRetry ==
    /\ pc = "awaiting" /\ binding = "proxy"
    /\ \E outcome \in HttpOutcomes :
         /\ reply' = outcome
         /\ IF outcome.kind = "timeout" /\ Len(posts) < 2
            THEN /\ posts' = Append(posts, posts[Len(posts)])
                 /\ pc' = "awaiting"
                 /\ response' = response
            ELSE /\ response' = ProxyFinish(outcome)
                 /\ pc' = "responded"
                 /\ posts' = posts
    /\ UNCHANGED <<binding, request, draws, session>>

\* the POST gets its outcome and the proxy resumes and returns
ProxyResume ==
    /\ pc = "awaiting" /\ binding = "proxy"
    /\ \E outcome \in HttpOutcomes :
         /\ reply' = outcome
         /\ response' = ProxyFinish(outcome)
    /\ pc' = "responded"
    /\ UNCHANGED <<binding, request, draws, posts, session>>

\* the event API Gateway hands to a REST handler for a POST with a JSON body
PostEvent(json) == Event(PyStr("POST"), PyText(JsonDumps(json)))

\* the POST of the proxy is served by the REST handler at its path: the
\* handler's statusCode, Content-Type and body become the HTTP response
ProxyServed ==
    /\ pc = "awaiting" /\ binding = "proxy"
    /\ \E path \in RestPaths, rng \in Rngs :
         /\ posts[Len(posts)].url = API_BASE_URL \o path
         /\ \E r \in {RestServe(path, PostEvent(posts[Len(posts)].json), rng)} :
            \E json \in {JsonLoads(r.out.val.body.toks).val} :
            \E outcome \in {JsonResponse(r.out.val.statusCode,
                                          r.out.val.headers["Content-Type"], json)} :
                /\ reply' = outcome
                /\ response' = ProxyFinish(outcome)
                /\ draws' = r.draws
    /\ pc' = "responded"
    /\ UNCHANGED <<binding, request, posts, session>>

\* a POST to a REST path, as the gateway hands it to the handler
RestRequest(path, event) == [method |-> "POST", path |-> path, event |-> event]

\* the requests sent to the REST handlers: every argument map as a JSON
\* body, a body that is no JSON, and a direct invocation without a body
RestCalls ==
    {RestRequest("/math/add", PostEvent(a)) : a \in MathArgs \cup {EmptyDict}}
    \cup {RestRequest("/random/number", PostEvent(a)) : a \in NumberArgs \cup {EmptyDict}}
    \cup {RestRequest("/random/list", PostEvent(a)) : a \in ListArgs \cup {EmptyDict}}
    \cup {RestRequest("/random/choice", PostEvent(a)) : a \in ChoiceArgs \cup {EmptyDict}}
    \cup {RestRequest(p, Event(PyStr("POST"), PyText(<<LBrace>>))) : p \in RestPaths}
    \cup {RestRequest("/math/add", MkDict(<<<<"a", PyInt(2)>>, <<"b", PyInt(3)>>>>)),
          RestRequest("/random/choice",
                      MkDict(<<<<"choices", PyList(<<PyStr("a"), PyStr("b")>>)>>,
                               <<"count", PyInt(2)>>>>))}

\* the gateway invokes a REST handler
RestReceive ==
    /\ pc = "idle"
    /\ \E call \in RestCalls : request' = call
    /\ binding' = "rest"
    /\ pc' = "received"
    /\ UNCHANGED <<response, draws, posts, reply, session>>

\* the REST handler runs on the event
RestHandle ==
    /\ pc = "received" /\ binding = "rest"
    /\ \E rng \in Rngs :
         LET r == RestServe(request.path, request.event, rng)
         IN  response' = r.out /\ draws' = r.draws
    /\ pc' = "responded"
    /\ UNCHANGED <<binding, request, posts, reply, session>>

\* the invocation ends; nothing of it is kept
Finish ==
    /\ pc = "responded"
    /\ pc' = "idle"
    /\ binding' = "none"
    /\ request' = PyNone
    /\ response' = NoResponse
    /\ draws' = 0
    /\ posts' = <<>>
    /\ reply' = NoReply
    /\ UNCHANGED session

Next ==
    \/ McpReceive \/ McpHandle
    \/ LocalReceive \/ LocalHandle \/ LocalList
    \/ ProxyReceive \/ ProxyIssue \/ ProxyResume \/ ProxyServed \/ ProxyList
    \/ RestReceive \/ RestHandle
    \/ Finish

Spec == Init /\ [][Next]_vars

(***************************************************************************)
(* One server process answering a sequence of requests.  The only state a  *)
(* process carries from one request to the next is the state of the random *)
(* module's generator (no handler assigns a module-level name); the log is *)
(* the record of what the process has answered so far.                     *)
(***************************************************************************)
MaxHistory == 2

\* the stream the generator yields from its present position
Generator ==
    [i \in 1..RngLen |-> session.seed[((session.drawn + i - 1) % RngLen) + 1]]

\* the requests sent to one process of the remote MCP handler
SessionEvents ==
    {PostEvent(e) :
        e \in {Envelope(PyStr("initialize"), PyInt(1),
                        MkDict(<<<<"protocolVersion", PyStr("2025-03-26")>>>>)),
               Envelope(PyStr("tools/list"), PyInt(1), Absent),
               Envelope(PyStr("tools/call"), PyInt(1),
                        CallParams(<<PyStr("math_add"),
                                     MkDict(<<<<"a", PyInt(3)>>, <<"b", PyInt(2)>>>>)>>)),
               Envelope(PyStr("tools/call"), PyInt(1),
                        CallParams(<<PyStr("get_random_number"), EmptyDict>>))}}

\* the calls sent to one process of the local stdio server
SessionCalls ==
    {StdioCall(PyStr("math_add"), MkDict(<<<<"a", PyInt(3)>>, <<"b", PyInt(2)>>>>)),
     StdioCall(PyStr("math_add"), MkDict(<<<<"a", PyInt(3)>>>>)),
     StdioCall(PyStr("get_random_number"), PyNone)}

SessionInit ==
    /\ pc = "idle"
    /\ binding = "none"
    /\ request = PyNone
    /\ response = NoResponse
    /\ draws = 0
    /\ posts = <<>>
    /\ reply = NoReply
    /\ session \in {NewSession(seed) : seed \in Rngs}

\* the process serves the binding and can take one more request
Serving(b) ==
    /\ pc = "idle"
    /\ Len(session.log) <= MaxHistory
    /\ \A i \in 1..Len(session.log) : session.log[i].binding = b

\* the process of the remote MCP handler is invoked with an event
SessionMcpReceive ==
    /\ Serving("mcp")
    /\ \E event \in SessionEvents : request' = event
    /\ binding' = "mcp"
    /\ pc' = "received"
    /\ UNCHANGED <<response, draws, posts, reply, session>>

\* a handler that answers tools/list and tools/call only after the process
\* has seen an initialize
SessionMcpHandleInitialized ==
    /\ pc = "received" /\ binding = "mcp"
    /\ LET r == lambda_handler(request, Generator)
           method == ParseBody(request).val.d.method
           known == \E i \in 1..Len(session.log) :
                       ParseBody(session.log[i].request).val.d.method = PyStr("initialize")
       IN  /\ response' = IF method = PyStr("initialize") \/ known THEN r.out
                          ELSE Val(create_mcp_error(PyNone, -32600, "Invalid Request"))
           /\ draws' = IF method = PyStr("initialize") \/ known THEN r.draws ELSE 0
    /\ pc' = "responded"
    /\ UNCHANGED <<binding, request, posts, reply, session>>

\* lambda_handler runs on the event, drawing from the process's generator
SessionMcpHandle ==
    /\ pc = "received" /\ binding = "mcp"
    /\ LET r == lambda_handler(request, Generator)
       IN  response' = r.out /\ draws' = r.draws
    /\ pc' = "responded"
    /\ UNCHANGED <<binding, request, posts, reply, session>>

\* the MCP library hands a tools/call to the process of the local server
SessionLocalReceive ==
    /\ Serving("local")
    /\ \E call \in SessionCalls : request' = call
    /\ binding' = "local"
    /\ pc' = "received"
    /\ UNCHANGED <<response, draws, posts, reply, session>>

\* handle_call_tool runs on the call, drawing from the process's generator
SessionLocalHandle ==
    /\ pc = "received" /\ binding = "local"
    /\ LET r == LocalCallTool(request.name, request.arguments, Generator)
       IN  response' = r.out /\ draws' = r.draws
    /\ pc' = "responded"
    /\ UNCHANGED <<binding, request, posts, reply, session>>

\* a handle_list_tools that lists its tools once per process
SessionLocalListOnce ==
    /\ Serving("local")
    /\ request' = ListRequest
    /\ binding' = "local"
    /\ response' = IF session.log = <<>> THEN Val(LocalListTools) ELSE Val(<<>>)
    /\ pc' = "responded"
    /\ UNCHANGED <<draws, posts, reply, session>>

\* the MCP library calls handle_list_tools of the process of the local server
SessionLocalList ==
    /\ Serving("local")
    /\ request' = ListRequest
    /\ binding' = "local"
    /\ response' = Val(LocalListTools)
    /\ pc' = "responded"
    /\ UNCHANGED <<draws, posts, reply, session>>

\* the invocation ends; the generator keeps the position the handler left
\* it at
SessionFinish ==
    /\ pc = "responded"
    /\ Len(session.log) < MaxHistory
    /\ session' = [log |-> Append(session.log,
                                  [binding |-> binding, request |-> request,
                                   response |-> response]),
                   seed |-> session.seed,
                   drawn |-> (session.drawn + draws) % RngLen]
    /\ pc' = "idle"
    /\ binding' = "none"
    /\ request' = PyNone
    /\ response' = NoResponse
    /\ draws' = 0
    /\ posts' = <<>>
    /\ reply' = NoReply

SessionNext ==
    \/ SessionMcpReceive \/ SessionMcpHandle
    \/ SessionLocalReceive \/ SessionLocalHandle \/ SessionLocalList
    \/ SessionFinish

SessionSpec == SessionInit /\ [][SessionNext]_vars

(***************************************************************************)
(* Several invocations of the proxy in flight.  handle_call_tool is a      *)
(* coroutine: the event loop runs an invocation until it awaits its POST   *)
(* and may start or resume another one meanwhile.  Every invocation has    *)
(* its own endpoint_map, client and response objects (locals of lines      *)
(* 199-234); the module holds only server and API_BASE_URL, which no       *)
(* invocation assigns.  Here pc, request, reply and response are indexed   *)
(* by the invocation, and posts is the sequence of POSTs on the network,   *)
(* each with the invocation that awaits it and, once the server has        *)
(* answered, its outcome.                                                  *)
(***************************************************************************)
MaxInFlight == 2

InFlight == 1..MaxInFlight

\* the calls of the concurrent invocations
ConcurrentCalls ==
    {StdioCall(PyStr("math_add"), MkDict(<<<<"a", PyInt(2)>>, <<"b", PyInt(3)>>>>)),
     StdioCall(PyStr("get_random_number"), PyNone),
     StdioCall(PyStr("math_power"), EmptyDict)}

\* the outcomes of their POSTs
ConcurrentOutcomes ==
    {JsonResponse(200, "application/json",
                  PyDict([result |-> PyInt(5), expression |-> PyStr("2 + 3 = 5")])),
     JsonResponse(200, "application/json", PyDict([result |-> PyFloat(5)])),
     JsonResponse(500, "application/json",
                  PyDict([error |-> PyStr("Internal server error")])),
     [kind |-> "timeout", msg |-> "The read operation timed out"],
     [kind |-> "request_error", msg |-> "All connection attempts failed"]}

ConcurrentInit ==
    /\ pc = [i \in InFlight |-> "idle"]
    /\ binding = "proxy"
    /\ request = [i \in InFlight |-> PyNone]
    /\ response = [i \in InFlight |-> NoResponse]
    /\ reply = [i \in InFlight |-> NoReply]
    /\ posts = <<>>
    /\ draws = 0
    /\ session = NewSession(<<>>)

\* the MCP library starts an invocation of handle_call_tool
ConcurrentReceive(i) ==
    /\ pc[i] = "idle"
    /\ \E call \in ConcurrentCalls : request' = [request EXCEPT ![i] = call]
    /\ pc' = [pc EXCEPT ![i] = "received"]
    /\ UNCHANGED <<binding, response, draws, posts, reply, session>>

\* the invocation runs up to its return for an unknown name, or up to the
\* await of its POST
ConcurrentIssue(i) ==
    /\ pc[i] = "received"
    /\ LET started == ProxyStart(request[i].name, request[i].arguments)
       IN  IF started.returned
           THEN /\ response' = [response EXCEPT ![i] = Val(started.val)]
                /\ pc' = [pc EXCEPT ![i] = "responded"]
                /\ posts' = posts
           ELSE /\ posts' = Append(posts, [by |-> i, url |-> started.post.url,
                                           json |-> started.post.json,
                                           outcome |-> NoReply])
                /\ pc' = [pc EXCEPT ![i] = "awaiting"]
                /\ response' = response
    /\ UNCHANGED <<binding, request, draws, reply, session>>

\* the network settles one of the outstanding POSTs, in any order
ConcurrentRespond ==
    /\ \E k \in 1..Len(posts), outcome \in ConcurrentOutcomes :
         /\ posts[k].outcome = NoReply
         /\ posts' = [posts EXCEPT ![k].outcome = outcome]
    /\ UNCHANGED <<pc, binding, request, response, draws, reply, session>>

\* a resumption that takes the outcome of whichever POST was settled, as a
\* handler would that kept its client's last response in a module variable
ConcurrentResumeAny(i) ==
    /\ pc[i] = "awaiting"
    /\ \E k \in 1..Len(posts) :
         /\ posts[k].outcome # NoReply
         /\ \E j \in 1..Len(posts) : posts[j].by = i /\ posts[j].outcome # NoReply
         /\ reply' = [reply EXCEPT ![i] = posts[k].outcome]
         /\ response' = [response EXCEPT ![i] = ProxyFinish(posts[k].outcome)]
    /\ pc' = [pc EXCEPT ![i] = "responded"]
    /\ UNCHANGED <<binding, request, draws, posts, session>>

\* the await of the invocation returns with the outcome of its own POST,
\* and the invocation runs to its return
ConcurrentResume(i) ==
    /\ pc[i] = "awaiting"
    /\ \E k \in 1..Len(posts) :
         /\ posts[k].by = i /\ posts[k].outcome # NoReply
         /\ reply' = [reply EXCEPT ![i] = posts[k].outcome]
         /\ response' = [response EXCEPT ![i] = ProxyFinish(posts[k].outcome)]
    /\ pc' = [pc EXCEPT ![i] = "responded"]
    /\ UNCHANGED <<binding, request, draws, posts, session>>

\* the library sends the answer; the client and its POST are gone
ConcurrentFinish(i) ==
    /\ pc[i] = "responded"
    /\ pc' = [pc EXCEPT ![i] = "idle"]
    /\ request' = [request EXCEPT ![i] = PyNone]
    /\ response' = [response EXCEPT ![i] = NoResponse]
    /\ reply' = [reply EXCEPT ![i] = NoReply]
    /\ posts' = SelectSeq(posts, LAMBDA p : p.by # i)
    /\ UNCHANGED <<binding, draws, session>>

ConcurrentNext ==
    \/ \E i \in InFlight : ConcurrentReceive(i)
    \/ \E i \in InFlight : ConcurrentIssue(i)
    \/ ConcurrentRespond
    \/ \E i \in InFlight : ConcurrentResume(i)
    \/ \E i \in InFlight : ConcurrentFinish(i)

ConcurrentSpec == ConcurrentInit /\ [][ConcurrentNext]_vars

(***************************************************************************)
(* What a caller sees of an answered request.                              *)
(***************************************************************************)
McpAnswered == pc = "responded" /\ binding = "mcp"
LocalAnswered == pc = "responded" /\ binding = "local"
ProxyAnswered == pc = "responded" /\ binding = "proxy"

\* the event is an OPTIONS preflight
Preflight(event) == ~IsPreflight(event).raised /\ IsPreflight(event).val

\* the handler decoded a JSON value from the event and dispatches on it
HasEnvelope(event) ==
    /\ ~IsPreflight(event).raised
    /\ ~Preflight(event)
    /\ ~ParseBody(event).raised

EnvelopeOf(event) == ParseBody(event).val

\* the decoded value is an object with a method field
HasMethod(env) == env.t = "dict" /\ "method" \in DOMAIN env.d

\* the handler dispatches the event's envelope on the given method name
IsRequest(event, method) ==
    /\ HasEnvelope(event)
    /\ HasMethod(EnvelopeOf(event))
    /\ EnvelopeOf(event).d.method = PyStr(method)

\* the id the answer to an envelope carries
IdOf(env) == IF "id" \in DOMAIN env.d THEN env.d.id ELSE PyNone

\* the body of the HTTP response, and the JSON value a client decodes from it
BodyText == response.val.body.toks
Answer == JsonLoads(BodyText).val

\* the body is a JSON-RPC 2.0 object with an error member and no result
IsErrorAnswer ==
    /\ ~response.raised
    /\ BodyText # <<>>
    /\ ~JsonLoads(BodyText).raised
    /\ Answer.t = "dict"
    /\ DOMAIN Answer.d = {"jsonrpc", "id", "error"}
    /\ Answer.d.jsonrpc = PyStr("2.0")
    /\ Answer.d.error.t = "dict"
    /\ DOMAIN Answer.d.error.d = {"code", "message"}

\* the body is a JSON-RPC 2.0 object with a result member and no error
IsResultAnswer ==
    /\ ~response.raised
    /\ BodyText # <<>>
    /\ ~JsonLoads(BodyText).raised
    /\ Answer.t = "dict"
    /\ DOMAIN Answer.d = {"jsonrpc", "id", "result"}
    /\ Answer.d.jsonrpc = PyStr("2.0")

ErrorCode == Answer.d.error.d.code
ErrorMessage == Answer.d.error.d.message

\* the params, tool name and arguments of a tools/call envelope
ParamsOf(env) == IF "params" \in DOMAIN env.d THEN env.d.params ELSE EmptyDict
CallName(env) ==
    IF ParamsOf(env).t = "dict" /\ "name" \in DOMAIN ParamsOf(env).d
    THEN ParamsOf(env).d.name ELSE PyNone
CallArguments(env) ==
    IF ParamsOf(env).t = "dict" /\ "arguments" \in DOMAIN ParamsOf(env).d
    THEN ParamsOf(env).d.arguments ELSE EmptyDict

\* the failures of a tool call that are decided by its name and arguments:
\* a or b missing, division by zero, min > max, count outside 1..1000,
\* choices missing or empty, more unique items wanted than there are choices
ListedFailure(name, arguments) ==
    LET Has(k) == arguments.t = "dict" /\ k \in DOMAIN arguments.d
        Arg(k, default) == IF Has(k) THEN arguments.d[k] ELSE default
        lo == Arg("min", PyInt(0))
        hi == Arg("max", PyInt(100))
        count == Arg("count", PyInt(5))
        choices == Arg("choices", PyNone)
        wanted == Arg("count", PyInt(1))
    IN  \/ /\ name \in {PyStr(n) : n \in MathTools}
           /\ ~Has("a") \/ ~Has("b")
        \/ /\ name = PyStr("math_divide")
           /\ Has("a") /\ Has("b")
           /\ IsNum(arguments.d.b) /\ Halves(arguments.d.b) = 0
        \/ /\ name \in {PyStr("get_random_number"), PyStr("get_random_number_list")}
           /\ IsNum(lo) /\ IsNum(hi) /\ Halves(lo) > Halves(hi)
        \/ /\ name = PyStr("get_random_number_list")
           /\ count.t = "int" /\ (count.n < 1 \/ count.n > 1000)
        \/ /\ name = PyStr("get_random_choice")
           /\ ~Has("choices") \/ choices = EmptyList
        \/ /\ name = PyStr("get_random_choice")
           /\ choices.t = "list" /\ wanted.t = "int" /\ wanted.n > Len(choices.l)
           /\ Arg("allow_duplicates", PyBool(FALSE)) = PyBool(FALSE)

\* the tool call of the envelope fails: one of the listed failures, or an
\* exception raised on the way through the dispatch
CallFails(env) ==
    \/ ListedFailure(CallName(env), CallArguments(env))
    \/ \A rng \in Rngs : Dispatch(env, rng).out.raised

\* C1: in the remote MCP handler every tools/call that fails validation or
\* execution is answered with a JSON-RPC error object of code -32603 whose
\* message carries the failure message after "Internal error: ", never with a
\* result; and no tools/call is answered with an error of another code.
C1_ToolFailureIsInternalError ==
    (McpAnswered /\ IsRequest(request, "tools/call")) =>
        LET env == EnvelopeOf(request)
        IN  /\ CallFails(env) =>
                /\ IsErrorAnswer
                /\ ErrorCode = PyInt(-32603)
                /\ \E rng \in Rngs :
                     /\ Dispatch(env, rng).out.raised
                     /\ ErrorMessage
                          = PyStr("Internal error: " \o Dispatch(env, rng).out.msg)
            /\ IsErrorAnswer => ErrorCode = PyInt(-32603)
            /\ IsErrorAnswer \/ IsResultAnswer

\* a division by zero has been answered with its -32603 error
C1_Witness ==
    /\ McpAnswered /\ IsRequest(request, "tools/call")
    /\ CallName(EnvelopeOf(request)) = PyStr("math_divide")
    /\ ListedFailure(CallName(EnvelopeOf(request)), CallArguments(EnvelopeOf(request)))
    /\ IsErrorAnswer
    /\ ErrorMessage = PyStr("Internal error: Division by zero is not allowed")

\* the body of the event is a string that holds no JSON text
MalformedBody(event) ==
    /\ event.t = "dict"
    /\ "body" \in DOMAIN event.d
    /\ event.d.body.t = "str"
    /\ event.d.body.toks \in Malformed

\* the answer is the parse error with a null id, and nothing was executed
IsParseError ==
    /\ IsErrorAnswer
    /\ ErrorCode = PyInt(-32700)
    /\ Answer.d.id = PyNone
    /\ draws = 0

\* C2 (as stated): for every event whose body is a string that is not valid
\* JSON the remote MCP handler answers with a JSON-RPC error of code -32700
\* and id null and dispatches to no method.
C2_MalformedIsParseError ==
    (McpAnswered /\ MalformedBody(request)) => IsParseError

\* C2 (amended): the same for every event that is not an OPTIONS preflight;
\* a preflight is answered before its body is read.
C2_MalformedIsParseErrorUnlessPreflight ==
    (McpAnswered /\ MalformedBody(request) /\ ~Preflight(request)) =>
        (IsParseError /\ ErrorMessage = PyStr("Parse error"))

\* a POST with a malformed body has been answered with the parse error
C2_Witness ==
    /\ McpAnswered /\ MalformedBody(request) /\ ~Preflight(request)
    /\ request.d.body.toks # <<>>
    /\ IsParseError

\* the handler decoded the event's body, a string, as JSON text
ParsedFromText(event) ==
    /\ HasEnvelope(event)
    /\ "body" \in DOMAIN event.d
    /\ event.d.body.t = "str"

\* C3: every successfully parsed envelope without a method field, whatever
\* JSON value it decodes to, is answered with a JSON-RPC error of code -32600
\* and id null.
C3_NoMethodIsInvalidRequest ==
    (/\ McpAnswered
     /\ ParsedFromText(request)
     /\ ~HasMethod(EnvelopeOf(request))) =>
        /\ IsErrorAnswer
        /\ ErrorCode = PyInt(-32600)
        /\ Answer.d.id = PyNone

\* the four methods the dispatcher knows
KnownMethods ==
    {PyStr("initialize"), PyStr("initialized"), PyStr("tools/list"), PyStr("tools/call")}

\* the handler dispatches an envelope whose method is none of the four
IsUnknownMethod(event) ==
    /\ HasEnvelope(event)
    /\ HasMethod(EnvelopeOf(event))
    /\ EnvelopeOf(event).d.method \notin KnownMethods

\* C4: every envelope the handler dispatches whose method is none of
\* initialize, initialized, tools/list, tools/call is answered with a JSON-RPC
\* error of code -32601 carrying the envelope's id, and no tool is executed
\* (nothing is drawn from the random source and no tool result is returned).
C4_UnknownMethodNotFound ==
    (McpAnswered /\ IsUnknownMethod(request)) =>
        /\ IsErrorAnswer
        /\ ErrorCode = PyInt(-32601)
        /\ Answer.d.id = IdOf(EnvelopeOf(request))
        /\ draws = 0

\* a ping has been answered with method-not-found
C4_Witness ==
    /\ McpAnswered /\ IsUnknownMethod(request)
    /\ EnvelopeOf(request).d.method = PyStr("ping")
    /\ IsErrorAnswer
    /\ ErrorMessage = PyStr("Method not found: ping")

\* a stdio binding has answered a tools/call
IsStdioCall == request.method = "tools/call"

\* the name is one of the seven registered tool names
IsRegistered(name) == name.t = "str" /\ name.s \in ToolNames

\* the single text item "Unknown tool: {name}", returned as a normal result
UnknownToolText(name) == Val(<<TextContent("Unknown tool: " \o Fmt(name))>>)

ListedNames(tools) == {tools.l[i].d.name.s : i \in 1..Len(tools.l)}

\* the remote MCP handler dispatched the call to no executor
McpUnknownTool(name) ==
    /\ IsErrorAnswer
    /\ ErrorMessage = PyStr("Internal error: Unknown tool: " \o Fmt(name))

\* C6: in each binding the names tools/list returns are exactly the names
\* tools/call dispatches to an executor or endpoint.  Both sets are the seven
\* registered names: a listing names exactly the seven, and a call is turned
\* away as an unknown tool exactly if its name is none of the seven.
C6_ListedIsExecutable ==
    /\ (LocalAnswered /\ request = ListRequest) =>
          ListedNames(response.val) = ToolNames
    /\ (ProxyAnswered /\ request = ListRequest) =>
          ListedNames(response.val) = ToolNames
    /\ (McpAnswered /\ IsRequest(request, "tools/list")) =>
          (IsResultAnswer /\ ListedNames(Answer.d.result.d.tools) = ToolNames)
    /\ (LocalAnswered /\ IsStdioCall) =>
          (response = UnknownToolText(request.name) <=> ~IsRegistered(request.name))
    /\ (ProxyAnswered /\ IsStdioCall) =>
          /\ posts = <<>> <=> ~IsRegistered(request.name)
          /\ response = UnknownToolText(request.name) <=> ~IsRegistered(request.name)
    /\ (/\ McpAnswered /\ IsRequest(request, "tools/call")
        /\ ParamsOf(EnvelopeOf(request)).t = "dict") =>
          (McpUnknownTool(CallName(EnvelopeOf(request)))
             <=> ~IsRegistered(CallName(EnvelopeOf(request))))

\* the proxy has sent a call of the last listed tool to its endpoint
C6_Witness ==
    /\ ProxyAnswered /\ IsStdioCall
    /\ request.name = PyStr("math_divide")
    /\ Len(posts) = 1
    /\ posts[1].url = "https://api.example/prod/math/divide"

C8_AlwaysStatus200 ==
    McpAnswered =>
        /\ ~response.raised
        /\ DOMAIN response.val = {"statusCode", "headers", "body"}
        /\ response.val.statusCode = 200

\* an exception inside the handler has been answered with status 200
C8_Witness ==
    /\ McpAnswered
    /\ IsErrorAnswer
    /\ ErrorCode = PyInt(-32603)
    /\ response.val.statusCode = 200

\* C9: the body of every response of the remote MCP handler is empty or a
\* JSON-RPC 2.0 object with exactly one of result and error; it is empty
\* exactly for an OPTIONS preflight and for a dispatched initialized
\* notification.
C9_EmptyOrOneOfResultError ==
    McpAnswered =>
        /\ ~response.raised
        /\ (BodyText = <<>>) <=>
              (Preflight(request) \/ IsRequest(request, "initialized"))
        /\ BodyText # <<>> =>
              /\ ~JsonLoads(BodyText).raised
              /\ Answer.t = "dict"
              /\ {"jsonrpc", "id"} \subseteq DOMAIN Answer.d
              /\ Answer.d.jsonrpc = PyStr("2.0")
              /\ ("result" \in DOMAIN Answer.d) # ("error" \in DOMAIN Answer.d)
              /\ IsResultAnswer \/ IsErrorAnswer

\* a tools/list has been answered with a result and no error member
C9_Witness ==
    /\ McpAnswered /\ IsRequest(request, "tools/list")
    /\ IsResultAnswer
    /\ "error" \notin DOMAIN Answer.d

\* C10: every envelope whose method is initialize, whatever its params
\* (absent, empty, null, any requested protocolVersion), is answered with a
\* JSON-RPC result holding the protocol version, a capabilities object with
\* tools, and the server's name and version.
C10_InitializeAlwaysResult ==
    (McpAnswered /\ IsRequest(request, "initialize")) =>
        /\ IsResultAnswer
        /\ Answer.d.id = IdOf(EnvelopeOf(request))
        /\ Answer.d.result.t = "dict"
        /\ {"protocolVersion", "capabilities", "serverInfo"}
              \subseteq DOMAIN Answer.d.result.d
        /\ "tools" \in DOMAIN Answer.d.result.d.capabilities.d
        /\ {"name", "version"} \subseteq DOMAIN Answer.d.result.d.serverInfo.d

(***************************************************************************)
(* The results of the tools.                                               *)
(***************************************************************************)
\* the call a binding has answered: its name and arguments
AnsweredName ==
    IF binding = "mcp" THEN CallName(EnvelopeOf(request)) ELSE request.name
AnsweredArguments ==
    IF binding = "mcp" THEN CallArguments(EnvelopeOf(request)) ELSE request.arguments

\* the local stdio server or the remote MCP handler has answered a call of
\* the named tool
ToolAnswered(name) ==
    /\ \/ LocalAnswered /\ IsStdioCall
       \/ /\ McpAnswered /\ IsRequest(request, "tools/call")
          /\ ParamsOf(EnvelopeOf(request)).t = "dict"
    /\ AnsweredName = PyStr(name)

\* the arguments carry the key
HasArg(key) == AnsweredArguments.t = "dict" /\ key \in DOMAIN AnsweredArguments.d

\* the arguments carry numbers under both keys
NumericArgs(k1, k2) ==
    /\ HasArg(k1) /\ HasArg(k2)
    /\ IsNum(AnsweredArguments.d[k1]) /\ IsNum(AnsweredArguments.d[k2])

\* the answer is the single text item with the given text, as a result
ReturnsText(text) ==
    IF binding = "mcp"
    THEN /\ IsResultAnswer
         /\ Answer.d.id = IdOf(EnvelopeOf(request))
         /\ Answer.d.result
              = PyDict([content |->
                          PyList(<<PyDict([type |-> PyStr("text"),
                                           text |-> PyStr(text)])>>)])
    ELSE response = Val(<<TextContent(text)>>)

\* the answer is the binding's error with the given message: the text
\* "Error: {message}" of the local server, the -32603 error of the remote
\* MCP handler
FailsWith(message) ==
    IF binding = "mcp"
    THEN /\ IsErrorAnswer
         /\ ErrorCode = PyInt(-32603)
         /\ ErrorMessage = PyStr("Internal error: " \o message)
    ELSE response = Val(<<TextContent("Error: " \o message)>>)

\* the floats of value h/2 and, if both operands are ints, the int
NumbersOf(h, a, b) ==
    IF a.t = "int" /\ b.t = "int"
    THEN {PyInt(n) : n \in {m \in {h \div 2} : 2 * m = h}}
    ELSE {PyFloat(h)} \cup (IF h = 0 THEN {NegZero} ELSE {})

\* the operator symbol a binding writes for a tool
OpSymbol(name) ==
    CASE name = "math_add" -> "+"
      [] name = "math_subtract" -> "-"
      [] name = "math_multiply" -> IF binding = "mcp" THEN McpTimesSign ELSE TimesSign
      [] name = "math_divide" -> IF binding = "mcp" THEN McpDivideSign ELSE DivideSign

\* the numbers r with r = a + b, r = a - b, r = a * b
ResultsOf(name, a, b) ==
    CASE name = "math_add" -> NumbersOf(Halves(a) + Halves(b), a, b)
      [] name = "math_subtract" -> NumbersOf(Halves(a) - Halves(b), a, b)
      [] name = "math_multiply" ->
            UNION {NumbersOf(h, a, b) :
                     h \in {k \in {(Halves(a) * Halves(b)) \div 2} :
                              2 * k = Halves(a) * Halves(b)}}

\* C13: for numeric a and b, math_add, math_subtract and math_multiply
\* return, in the local stdio server and in the remote MCP handler, a single
\* text item "{a} {op-symbol} {b} = {result}" whose result is a+b, a-b and
\* a*b respectively.
C13_ArithmeticText ==
    \A name \in {"math_add", "math_subtract", "math_multiply"} :
        (ToolAnswered(name) /\ NumericArgs("a", "b")) =>
            LET a == AnsweredArguments.d.a
                b == AnsweredArguments.d.b
            IN  \E r \in ResultsOf(name, a, b) :
                    ReturnsText(Fmt(a) \o " " \o OpSymbol(name) \o " " \o Fmt(b)
                                \o " = " \o Fmt(r))

\* the remote MCP handler has answered a subtraction with "3 - 2 = 1"
C13_Witness ==
    /\ binding = "mcp" /\ ToolAnswered("math_subtract")
    /\ NumericArgs("a", "b")
    /\ AnsweredArguments.d.a = PyInt(3) /\ AnsweredArguments.d.b = PyInt(2)
    /\ ReturnsText("3 - 2 = 1")

\* C14: math_divide first checks that a and b are present, then that b is
\* not zero: with a or b absent from the argument map it fails with the both-required error even
\* for b = 0; with numeric a and b = 0 it fails with the division-by-zero
\* error of the tool, not with the one the division itself would raise; with
\* numeric a and b # 0 it returns the quotient a/b.
C14_DivideChecksZero ==
    ToolAnswered("math_divide") =>
        /\ (AnsweredArguments.t = "dict" /\ (~HasArg("a") \/ ~HasArg("b"))) =>
              FailsWith("Both 'a' and 'b' parameters are required")
        /\ (NumericArgs("a", "b") /\ Halves(AnsweredArguments.d.b) = 0) =>
              FailsWith("Division by zero is not allowed")
        /\ (NumericArgs("a", "b") /\ Halves(AnsweredArguments.d.b) # 0) =>
              LET a == AnsweredArguments.d.a
                  b == AnsweredArguments.d.b
              IN  \E r \in {PyFloat(h) : h \in -8..8} \cup {NegZero} :
                     /\ Halves(r) * Halves(b) = 2 * Halves(a)
                     /\ ReturnsText(Fmt(a) \o " " \o OpSymbol("math_divide") \o " "
                                    \o Fmt(b) \o " = " \o Fmt(r))

\* the local server has answered 3 / 2 with the quotient 1.5
C14_Witness ==
    /\ binding = "local" /\ ToolAnswered("math_divide")
    /\ NumericArgs("a", "b")
    /\ AnsweredArguments.d.a = PyInt(3) /\ AnsweredArguments.d.b = PyInt(2)
    /\ ReturnsText("3 " \o DivideSign \o " 2 = 1.5")

(***************************************************************************)
(* The proxy in front of the REST handlers.                                *)
(***************************************************************************)
\* the HTTP response the REST handler at the path gives to a POST of the
\* JSON value
RestReply(path, json, rng) ==
    LET r == RestServe(path, PostEvent(json), rng).out.val
    IN  JsonResponse(r.statusCode, r.headers["Content-Type"],
                     JsonLoads(r.body.toks).val)

\* the proxy has answered a call whose POST went to the path and was served
\* by the REST handler there
ServedCall(name, path) ==
    /\ ProxyAnswered /\ IsStdioCall /\ request.name = PyStr(name)
    /\ posts # <<>>
    /\ posts[Len(posts)].url = API_BASE_URL \o path
    /\ \E rng \in Rngs : reply = RestReply(path, posts[Len(posts)].json, rng)

\* C15: for numeric a and b, the text the proxy returns for math_add when
\* the math_add REST handler serves its POST is the text the local server
\* returns for the same call, "{a} + {b} = {a+b}".
C15_ProxiedAddIsLocalAdd ==
    (ServedCall("math_add", "/math/add") /\ NumericArgs("a", "b")) =>
        LET a == request.arguments.d.a
            b == request.arguments.d.b
        IN  /\ \A rng \in Rngs :
                 response = LocalCallTool(request.name, request.arguments, rng).out
            /\ \E r \in ResultsOf("math_add", a, b) :
                 response = Val(<<TextContent(Fmt(a) \o " + " \o Fmt(b)
                                              \o " = " \o Fmt(r))>>)

\* the proxy, served by the REST handler, has answered 3 + 2 with "3 + 2 = 5"
C15_Witness ==
    /\ ServedCall("math_add", "/math/add") /\ NumericArgs("a", "b")
    /\ request.arguments.d.a = PyInt(3) /\ request.arguments.d.b = PyInt(2)
    /\ response = Val(<<TextContent("3 + 2 = 5")>>)

(***************************************************************************)
(* The REST handlers as a caller sees them.                                *)
(***************************************************************************)
\* the REST handler at the path has answered
RestAnswered(path) == pc = "responded" /\ binding = "rest" /\ request.path = path

\* the request body the handler decoded is an argument map
RestHasArguments ==
    LET body == RestBody(request.event)
    IN  ~body.raised /\ body.val.t = "dict"

\* the decoded request body, the status and the decoded body of the answer
RestArguments == RestBody(request.event).val
RestStatus == response.val.statusCode
RestJson == JsonLoads(response.val.body.toks).val

\* the answer is an error response: a 4xx or 5xx status and a body {error}
RestFailed ==
    /\ RestStatus \in {400, 500}
    /\ RestJson.t = "dict" /\ DOMAIN RestJson.d = {"error"}

\* the arguments of the answered call, whatever the binding
ArgumentsGiven == IF binding = "rest" THEN RestArguments ELSE AnsweredArguments

\* the local server, the remote MCP handler or the REST handler at the path
\* has answered a call of the tool that carries an argument map
Executed(name, path) ==
    /\ \/ ToolAnswered(name)
       \/ RestAnswered(path) /\ RestHasArguments
    /\ ArgumentsGiven.t = "dict"

\* the call is answered with an error: by the local server with a text
\* "Error: ..." (one of the given messages) or an exception that leaves the
\* handler, by the remote MCP handler with a JSON-RPC error, by the REST
\* handler with an error response
Rejected(messages) ==
    CASE binding = "local" ->
            \/ response.raised
            \/ \E m \in messages : response = Val(<<TextContent("Error: " \o m)>>)
      [] binding = "mcp" -> IsErrorAnswer
      [] binding = "rest" -> RestFailed

\* C16: a math_add call in which a or b is a string is answered with an
\* error by the local server, the remote MCP handler and the math_add REST
\* handler; none of them returns a computed result.
C16_StringOperandRejected ==
    (/\ Executed("math_add", "/math/add")
     /\ {"a", "b"} \subseteq DOMAIN ArgumentsGiven.d
     /\ "str" \in {ArgumentsGiven.d.a.t, ArgumentsGiven.d.b.t}) =>
        Rejected({"Both 'a' and 'b' parameters are required"})

(***************************************************************************)
(* The random tools.                                                       *)
(***************************************************************************)
\* the value the tool works with for a key: the argument, or the default of
\* the schema if the argument map has no such key
Given(key, default) ==
    IF key \in DOMAIN ArgumentsGiven.d THEN ArgumentsGiven.d[key] ELSE default

\* the answer carries the text (local server, remote MCP handler) or is the
\* 200 response whose field result is the value (REST handler)
Returns(text, value) ==
    IF binding = "rest"
    THEN /\ RestStatus = 200
         /\ RestJson.t = "dict" /\ "result" \in DOMAIN RestJson.d
         /\ RestJson.d.result = value
    ELSE ReturnsText(text)

\* C17: get_random_number with numbers min <= max returns one value v with
\* min <= v <= max; with min > max it is answered with an error and no
\* value.  In the local server, the remote MCP handler and the REST handler.
C17_RandomNumberInRange ==
    LET min == Given("min", DefaultMin)
        max == Given("max", DefaultMax)
    IN  (Executed("get_random_number", "/random/number") /\ IsNum(min) /\ IsNum(max)) =>
            IF Halves(min) <= Halves(max)
            THEN \E h \in Halves(min)..Halves(max) :
                    Returns("Random number: " \o Fmt(PyFloat(h)), PyFloat(h))
            ELSE /\ Rejected({MinGreaterMessage(min, max)})
                 /\ \A h \in Halves(max)..Halves(min) :
                        ~Returns("Random number: " \o Fmt(PyFloat(h)), PyFloat(h))

\* the REST handler has answered min = 5, max = 200 with a value strictly
\* between the two
C17_Witness ==
    /\ Executed("get_random_number", "/random/number") /\ binding = "rest"
    /\ Given("min", DefaultMin) = PyInt(5) /\ Given("max", DefaultMax) = PyInt(200)
    /\ \E h \in 11..399 : Returns("", PyFloat(h))

\* v is a float with min <= v <= max
InRange(v, min, max) ==
    v.t = "float" /\ Halves(min) <= Halves(v) /\ Halves(v) <= Halves(max)

\* l holds exactly n values, each within [min, max]
CountedAndInRange(l, n, min, max) ==
    Len(l) = n /\ \A i \in 1..Len(l) : InRange(l[i], min, max)

\* the answer carries a list of exactly n values within [min, max]: the
\* field result of a 200 response (REST handler), or a list whose repr the
\* text "Random numbers: [...]" shows (local server, remote MCP handler)
ReturnsNumberList(n, min, max) ==
    IF binding = "rest"
    THEN /\ RestStatus = 200 /\ RestJson.t = "dict"
         /\ "result" \in DOMAIN RestJson.d /\ RestJson.d.result.t = "list"
         /\ CountedAndInRange(RestJson.d.result.l, n, min, max)
    ELSE \E rng \in Rngs :
            LET l == UniformList(rng, min, max, n)
            IN  /\ CountedAndInRange(l, n, min, max)
                /\ ReturnsText("Random numbers: " \o PyRepr(PyList(l)))

\* C18: get_random_number_list with an integer count in 1..1000 and numbers
\* min <= max returns exactly count values, each within [min, max]; with a
\* count below 1 or above 1000 it is answered with an error, which carries
\* no list.  In the local server, the remote MCP handler and the REST
\* handler.
C18_RandomListCountAndRange ==
    LET count == Given("count", DefaultCount)
        min == Given("min", DefaultMin)
        max == Given("max", DefaultMax)
    IN  Executed("get_random_number_list", "/random/list") =>
          /\ (/\ count.t = "int" /\ 1 <= count.n /\ count.n <= MaxCount
              /\ IsNum(min) /\ IsNum(max) /\ Halves(min) <= Halves(max)) =>
                ReturnsNumberList(count.n, min, max)
          /\ (IsNum(count) /\ (Halves(count) < 2 \/ Halves(count) > 2 * MaxCount)) =>
                Rejected({"count must be between 1 and 1000, got " \o Fmt(count)}
                         \cup (IF IsNum(min) /\ IsNum(max)
                               THEN {MinGreaterMessage(min, max)} ELSE {}))

\* the local server has answered count = 1000 with a list of 1000 numbers
C18_Witness ==
    /\ Executed("get_random_number_list", "/random/list") /\ binding = "local"
    /\ Given("count", DefaultCount) = PyInt(MaxCount)
    /\ ReturnsNumberList(MaxCount, Given("min", DefaultMin), Given("max", DefaultMax))

\* the selections of n elements of choices the answer carries: the field
\* result of a 200 response (REST handler), or the lists whose repr the text
\* "Random choices: [...]" shows (local server, remote MCP handler)
SelectionsReturned(choices, n) ==
    IF binding = "rest"
    THEN IF /\ RestStatus = 200 /\ RestJson.t = "dict"
            /\ "result" \in DOMAIN RestJson.d /\ RestJson.d.result.t = "list"
         THEN {RestJson.d.result.l}
         ELSE {}
    ELSE {l \in [1..n -> {choices.l[i] : i \in 1..Len(choices.l)}] :
            ReturnsText("Random choices: " \o Fmt(PyList(l)))}

\* get_random_choice was executed on a non-empty list choices without
\* duplicates allowed and with an integer count, 1 < count <= len(choices)
SamplingCall ==
    /\ Executed("get_random_choice", "/random/choice")
    /\ "choices" \in DOMAIN ArgumentsGiven.d
    /\ ArgumentsGiven.d.choices.t = "list" /\ ArgumentsGiven.d.choices.l # <<>>
    /\ Given("allow_duplicates", PyBool(FALSE)) = PyBool(FALSE)
    /\ Given("count", PyInt(1)).t = "int"
    /\ 1 < Given("count", PyInt(1)).n
    /\ Given("count", PyInt(1)).n <= Len(ArgumentsGiven.d.choices.l)

\* l takes its elements from pairwise distinct positions of choices
FromDistinctPositions(l, choices) ==
    \E f \in [1..Len(l) -> 1..Len(choices)] :
        /\ \A i, j \in 1..Len(l) : i # j => f[i] # f[j]
        /\ \A i \in 1..Len(l) : l[i] = choices[f[i]]

\* the elements of l are pairwise distinct values
PairwiseDistinct(l) == \A i, j \in 1..Len(l) : i # j => l[i] # l[j]

\* C19 as stated: for every non-empty choices list, also one that holds a
\* value more than once, and 1 < count <= len(choices), get_random_choice
\* without duplicates allowed returns exactly count elements that are
\* members of choices and pairwise distinct.
C19_SelectionPairwiseDistinct ==
    SamplingCall =>
        \E l \in SelectionsReturned(ArgumentsGiven.d.choices, Given("count", PyInt(1)).n) :
            /\ Len(l) = Given("count", PyInt(1)).n
            /\ \A i \in 1..Len(l) : \E k \in 1..Len(ArgumentsGiven.d.choices.l) :
                   l[i] = ArgumentsGiven.d.choices.l[k]
            /\ PairwiseDistinct(l)

\* C19 amended: under the same conditions the result has exactly count
\* elements taken from pairwise distinct positions of choices; its elements
\* are pairwise distinct values if choices holds no value twice.
C19_SelectionFromDistinctPositions ==
    SamplingCall =>
        \E l \in SelectionsReturned(ArgumentsGiven.d.choices, Given("count", PyInt(1)).n) :
            /\ Len(l) = Given("count", PyInt(1)).n
            /\ FromDistinctPositions(l, ArgumentsGiven.d.choices.l)
            /\ PairwiseDistinct(ArgumentsGiven.d.choices.l) => PairwiseDistinct(l)

\* the remote MCP handler has answered choices ['a', 'a'], count 2 with the
\* selection ['a', 'a']
C19_Witness ==
    /\ SamplingCall /\ binding = "mcp"
    /\ ArgumentsGiven.d.choices = PyList(<<PyStr("a"), PyStr("a")>>)
    /\ <<PyStr("a"), PyStr("a")>> \in SelectionsReturned(ArgumentsGiven.d.choices, 2)

\* C20: a get_random_choice call on a non-empty list with an integer
\* count < 1, with or without allow_duplicates, is answered with an error by
\* the local server, the remote MCP handler and the REST handler, and never
\* with a selection, not even an empty one.
C20_CountBelowOneRejected ==
    (/\ Executed("get_random_choice", "/random/choice")
     /\ "choices" \in DOMAIN ArgumentsGiven.d
     /\ ArgumentsGiven.d.choices.t = "list" /\ ArgumentsGiven.d.choices.l # <<>>
     /\ Given("allow_duplicates", PyBool(FALSE)).t = "bool"
     /\ Given("count", PyInt(1)).t = "int" /\ Given("count", PyInt(1)).n < 1) =>
        /\ Rejected({})
        /\ SelectionsReturned(ArgumentsGiven.d.choices, 0) = {}

(***************************************************************************)
(* What a process keeps between requests.                                  *)
(***************************************************************************)
\* a generator whose every draw is zero
ZeroStream == [i \in 1..RngLen |-> 0]

\* the methods of the requests the process of the remote MCP handler has
\* answered so far
MethodsSeen ==
    {ParseBody(session.log[i].request).val.d.method : i \in 1..Len(session.log)}

\* the process of the remote MCP handler has answered a tools/list or a
\* call of an arithmetic tool
McpListOrArithmetic ==
    /\ McpAnswered
    /\ \/ IsRequest(request, "tools/list")
       \/ /\ IsRequest(request, "tools/call")
          /\ CallName(EnvelopeOf(request))
               \in {PyStr(n) : n \in {"math_add", "math_subtract", "math_multiply",
                                      "math_divide"}}

\* C11: the remote MCP handler keeps no session state.  Whatever requests
\* its process has answered before (none, an initialize, random calls that
\* moved the generator), a tools/list and a call of an arithmetic tool get
\* the response the handler gives them in a fresh process, and every request
\* answered without a draw gets the response it got earlier in the process.
C11_NoSessionState ==
    /\ McpListOrArithmetic => response = lambda_handler(request, ZeroStream).out
    /\ (pc = "responded" /\ binding = "mcp" /\ draws = 0) =>
          \A i \in 1..Len(session.log) :
              session.log[i].request = request => session.log[i].response = response

\* a process that has answered a random call and no initialize answers
\* tools/list with a result
C11_Witness ==
    /\ McpAnswered /\ IsRequest(request, "tools/list") /\ IsResultAnswer
    /\ Len(session.log) = MaxHistory
    /\ PyStr("initialize") \notin MethodsSeen
    /\ \E i \in 1..Len(session.log) :
          /\ IsRequest(session.log[i].request, "tools/call")
          /\ session.drawn # 0

\* a request for the list of tools, in either binding
IsListRequest(b, r) ==
    IF b = "mcp" THEN IsRequest(r, "tools/list") ELSE r = ListRequest

\* a call of math_add, in either binding
IsAddCall(b, r) ==
    IF b = "mcp"
    THEN IsRequest(r, "tools/call") /\ CallName(EnvelopeOf(r)) = PyStr("math_add")
    ELSE r.method = "tools/call" /\ r.name = PyStr("math_add")

\* C12: within one session any two tools/list requests return identical
\* results, and any two math_add calls with identical arguments return
\* identical results, whatever requests (failing ones, random calls) were
\* answered between them.
C12_RepeatedRequestsAgree ==
    (pc = "responded" /\ (IsListRequest(binding, request) \/ IsAddCall(binding, request))) =>
        \A i \in 1..Len(session.log) :
            session.log[i].request = request => session.log[i].response = response

\* the local server has answered tools/list, then a failing or a random
\* call, and answers tools/list again
C12_Witness ==
    /\ LocalAnswered /\ request = ListRequest
    /\ Len(session.log) = 2
    /\ session.log[1].request = ListRequest
    /\ session.log[2].request # ListRequest
    /\ session.log[2].request.name \in {PyStr("math_add"), PyStr("get_random_number")}
    /\ session.log[1].response = response

(***************************************************************************)
(* Selections with replacement.                                            *)
(***************************************************************************)
\* get_random_choice was executed on a non-empty list choices with
\* allow_duplicates true and an integer count >= 1
DuplicatesCall ==
    /\ Executed("get_random_choice", "/random/choice")
    /\ "choices" \in DOMAIN ArgumentsGiven.d
    /\ ArgumentsGiven.d.choices.t = "list" /\ ArgumentsGiven.d.choices.l # <<>>
    /\ Given("allow_duplicates", PyBool(FALSE)) = PyBool(TRUE)
    /\ Given("count", PyInt(1)).t = "int" /\ Given("count", PyInt(1)).n >= 1

\* the answer carries a sequence of n members of choices
ReturnsSelectionOf(choices, n) ==
    \E l \in SelectionsReturned(choices, n) :
        /\ Len(l) = n
        /\ \A i \in 1..Len(l) : \E k \in 1..Len(choices.l) : l[i] = choices.l[k]

\* the answer carries one member of choices, not wrapped in a sequence
ReturnsMemberOf(choices) ==
    \E k \in 1..Len(choices.l) :
        Returns("Random choice: " \o Fmt(choices.l[k]), choices.l[k])

\* C21 as stated: for every non-empty choices list and every count >= 1,
\* count = 1 and count > len(choices) included, get_random_choice with
\* allow_duplicates true returns a sequence of length count whose elements
\* are all members of choices.
C21_DuplicatesSequenceOfCount ==
    DuplicatesCall =>
        ReturnsSelectionOf(ArgumentsGiven.d.choices, Given("count", PyInt(1)).n)

\* C21 amended: with allow_duplicates true, a count >= 2 (also one above
\* len(choices)) returns a sequence of exactly count members of choices, and
\* count = 1 returns a single member of choices and no sequence.
C21_DuplicatesSequenceOrMember ==
    DuplicatesCall =>
        IF Given("count", PyInt(1)).n = 1
        THEN /\ ReturnsMemberOf(ArgumentsGiven.d.choices)
             /\ SelectionsReturned(ArgumentsGiven.d.choices, 1) = {}
        ELSE ReturnsSelectionOf(ArgumentsGiven.d.choices, Given("count", PyInt(1)).n)

\* the REST handler has answered choices ['a', 'b'], count 3 with a
\* selection in which 'a' occurs twice
C21_Witness ==
    /\ DuplicatesCall /\ binding = "rest"
    /\ ArgumentsGiven.d.choices = PyList(<<PyStr("a"), PyStr("b")>>)
    /\ Given("count", PyInt(1)) = PyInt(3)
    /\ \E l \in SelectionsReturned(ArgumentsGiven.d.choices, 3) :
          Len(l) = 3 /\ Cardinality({i \in 1..3 : l[i] = PyStr("a")}) = 2

(***************************************************************************)
(* What the proxy makes of the outcome of its POST.                        *)
(***************************************************************************)
\* the proxy has answered a call whose POST got a 200 response with a body
\* that decodes as JSON
OkReply ==
    /\ ProxyAnswered /\ reply.kind = "response" /\ reply.status = 200
    /\ ~JsonLoads(reply.toks).raised

\* the decoded body of the response
ReplyBody == JsonLoads(reply.toks).val

\* the body is an object that has the field
HasField(body, f) == body.t = "dict" /\ f \in DOMAIN body.d

\* the proxy returned exactly one text item, with the text
OneText(text) == ~response.raised /\ response.val = <<TextContent(text)>>

\* the proxy returned exactly one text item "Error: ..." that reports an
\* exception raised while the response was read
OneErrorText ==
    \E m \in {"1 validation error for TextContent",
              "argument of type 'int' is not iterable"} : OneText("Error: " \o m)

PostAnswered == ProxyAnswered /\ reply.kind # "none"

\* the handler returned exactly one text content item and raised nothing
OneTextItem ==
    /\ ~response.raised
    /\ Len(response.val) = 1 /\ response.val[1].type = "text"

\* the POST got a response with a status other than 200
ErrorReply == PostAnswered /\ reply.kind = "response" /\ reply.status # 200

\* the Content-Type of the response starts with 'application/json'
SaysJson == reply.ctype \in {"application/json", "application/json; charset=utf-8"}

\* the texts for a timeout and for a connection failure
TimeoutAndNetworkTexts ==
    /\ reply.kind = "timeout" => OneText("Error: Request timed out")
    /\ reply.kind = "request_error" =>
          OneText("Error: Network request failed - " \o reply.msg)

\* C23 as stated: whatever the outcome of the POST (200, another status
\* with a JSON or a non-JSON body, timeout, connection failure, a body that
\* does not decode, any other exception) the proxy returns exactly one text
\* item and raises nothing; a timeout gives a "timed out" text, a connection
\* failure a "network request failed" text, and a status other than 200 the
\* text "Error: " followed by the error field of the body, or by the raw
\* response text when the body is not JSON.
C23_OneTextErrorByBody ==
    PostAnswered =>
        /\ OneTextItem
        /\ TimeoutAndNetworkTexts
        /\ ErrorReply =>
              IF JsonLoads(reply.toks).raised
              THEN OneText("Error: " \o reply.text)
              ELSE HasField(ReplyBody, "error") =>
                      OneText("Error: " \o Fmt(ReplyBody.d.error))

\* C23 amended: whatever the outcome of the POST the proxy returns exactly
\* one text item and raises nothing, with the same texts for a timeout and
\* a connection failure.  For a status other than 200 the Content-Type
\* decides: if it starts with application/json the body is decoded and the
\* text is "Error: " followed by the error field of the object, by "Unknown
\* error" if the object has none, or by the message of the exception if the
\* body does not decode or is no object; otherwise the text is "Error: "
\* followed by the raw response text, also when that text is JSON.
C23_OneTextErrorByContentType ==
    PostAnswered =>
        /\ OneTextItem
        /\ TimeoutAndNetworkTexts
        /\ reply.kind = "exception" => OneText("Error: " \o reply.msg)
        /\ ErrorReply =>
              IF ~SaysJson THEN OneText("Error: " \o reply.text)
              ELSE IF JsonLoads(reply.toks).raised
              THEN OneText("Error: Expecting value: line 1 column 1 (char 0)")
              ELSE IF HasField(ReplyBody, "error")
              THEN OneText("Error: " \o Fmt(ReplyBody.d.error))
              ELSE IF ReplyBody.t = "dict" THEN OneText("Error: Unknown error")
              ELSE OneText("Error: 'list' object has no attribute 'get'")

\* the proxy has answered a 502 response that says application/json and
\* carries the text "Bad Gateway" with the message of the decoder
C23_Witness ==
    /\ ErrorReply /\ SaysJson /\ reply.status = 502 /\ reply.text = "Bad Gateway"
    /\ OneText("Error: Expecting value: line 1 column 1 (char 0)")

\* the proxy is handling a tool invocation
ProxyInvocation == binding = "proxy" /\ request.method = "tools/call"

\* the name of the invocation is one of the seven registered tools
RegisteredName == request.name.t = "str" /\ request.name.s \in ToolNames

\* the POSTs an invocation has issued: none before it starts, then one for
\* a registered name and none for any other
PostsIssued ==
    ProxyInvocation =>
        /\ Len(posts) <= 1
        /\ pc \in {"awaiting", "responded"} =>
              Len(posts) = (IF RegisteredName THEN 1 ELSE 0)

\* the outcome of the POST, whatever it is, ends the invocation with an
\* answer and without another POST
OutcomeIsFinal ==
    (ProxyInvocation /\ pc = "awaiting") =>
        /\ pc' = "responded" /\ posts' = posts /\ request' = request
        /\ reply'.kind # "none" /\ ~response'.raised

\* an answer is not replaced and nothing is posted after it
AnswerIsFinal ==
    (ProxyInvocation /\ pc = "responded") => pc' = "idle"

\* C24: a tool invocation on the proxy issues at most one POST, exactly one
\* for a registered name and none for an unknown name; after a timeout, a
\* connection failure or a status other than 200 no further request is
\* issued, and the failure is the final answer of the invocation.
C24_AtMostOnePost ==
    /\ []PostsIssued
    /\ [][OutcomeIsFinal /\ AnswerIsFinal]_vars

\* the proxy has answered an invocation whose single POST timed out
C24_Witness ==
    /\ ProxyInvocation /\ pc = "responded"
    /\ reply.kind = "timeout" /\ Len(posts) = 1
    /\ OneText("Error: Request timed out")

(***************************************************************************)
(* Correlation of answers with requests.                                   *)
(***************************************************************************)
\* the remote MCP handler has answered, with a JSON-RPC body, an envelope
\* that has a method and an id
IdentifiedRequestAnswered ==
    /\ McpAnswered /\ HasEnvelope(request)
    /\ HasMethod(EnvelopeOf(request)) /\ "id" \in DOMAIN EnvelopeOf(request).d
    /\ ~response.raised /\ BodyText # <<>>

\* C25: every JSON-RPC response the remote MCP handler produces for an
\* envelope that has a method and an id carries that same id, for successes
\* and for errors alike (initialize, tools/list, a succeeding tools/call, a
\* failing tools/call, an unknown method).
C25_ResponseCarriesRequestId ==
    IdentifiedRequestAnswered =>
        /\ IsResultAnswer \/ IsErrorAnswer
        /\ Answer.d.id = EnvelopeOf(request).d.id

(***************************************************************************)
(* Validation before execution.                                            *)
(***************************************************************************)
\* the local server, the remote MCP handler or a REST handler has answered
\* a call of one of the three random tools
RandomCallAnswered ==
    \/ Executed("get_random_number", "/random/number")
    \/ Executed("get_random_number_list", "/random/list")
    \/ Executed("get_random_choice", "/random/choice")

\* the messages of the checks the local server answers with "Error: ..."
ValidationMessages ==
    LET choices == Given("choices", PyNone)
    IN  {MinGreaterMessage(Given("min", DefaultMin), Given("max", DefaultMax)),
         "count must be between 1 and 1000, got " \o Fmt(Given("count", DefaultCount)),
         "'choices' parameter is required",
         "choices list cannot be empty"}
        \cup (IF PyLen(choices).raised THEN {}
              ELSE {CannotSelectMessage(Given("count", PyInt(1)), PyLen(choices).val)})

\* the call is answered with a result: a text that is no error (local
\* server), a JSON-RPC result (remote MCP handler), a 200 response (REST)
Succeeded ==
    CASE binding = "local" -> ~response.raised /\ ~Rejected(ValidationMessages)
      [] binding = "mcp" -> IsResultAnswer
      [] binding = "rest" -> RestStatus = 200

\* C26: validation precedes execution in every random-generation operation:
\* a call that ends in an error (min > max, count outside 1..1000, empty or
\* missing choices, count > len(choices) without allow_duplicates, or any
\* other) has consumed no draw from the random source, and a call that
\* draws from the random source ends in a success.
C26_NoDrawBeforeError ==
    RandomCallAnswered =>
        /\ Rejected(ValidationMessages) => draws = 0
        /\ draws > 0 => Succeeded

(***************************************************************************)
(* Calls without arguments, and defaults.                                  *)
(***************************************************************************)
\* the call carries no arguments: the member is absent (an empty map is
\* then used), null, or an empty map
WithoutArguments == AnsweredArguments \in {PyNone, EmptyDict}

\* a call of get_random_number or get_random_number_list without arguments
\* is answered as with an empty argument map: one number, or five numbers,
\* from [0, 100]
AnsweredWithDefaults ==
    /\ (ToolAnswered("get_random_number") /\ WithoutArguments) =>
          \E h \in 0..200 : ReturnsText("Random number: " \o Fmt(PyFloat(h)))
    /\ (ToolAnswered("get_random_number_list") /\ WithoutArguments) =>
          ReturnsNumberList(5, PyInt(0), PyInt(100))

\* the arguments supply nothing but a min above 100
OnlyMinAboveDefaultMax ==
    /\ ArgumentsGiven.t = "dict" /\ DOMAIN ArgumentsGiven.d = {"min"}
    /\ ArgumentsGiven.d.min.t = "int" /\ ArgumentsGiven.d.min.n > 100

\* C27: a tools/call whose arguments is absent, null or an empty map is
\* handled as a call with an empty argument map in every binding, and each
\* missing optional parameter takes its declared default: get_random_number
\* then draws from [0, 100], get_random_number_list returns 5 values from
\* [0, 100], the proxy posts an empty map, and a call that supplies only a
\* min above 100 fails because max defaults to 100.
C27_NoArgumentsMeansDefaults ==
    /\ AnsweredWithDefaults
    /\ (ProxyInvocation /\ WithoutArguments /\ posts # <<>>) =>
          posts[1].json = EmptyDict
    /\ ((Executed("get_random_number", "/random/number")
           \/ Executed("get_random_number_list", "/random/list"))
        /\ OnlyMinAboveDefaultMax) =>
          Rejected({MinGreaterMessage(ArgumentsGiven.d.min, PyInt(100))})

(***************************************************************************)
(* Invocations of the proxy in flight at the same time.                    *)
(***************************************************************************)
\* the POSTs on the network that invocation i issued
PostsOf(i) == {k \in 1..Len(posts) : posts[k].by = i}

\* the text an invocation returns that is alone with the outcome
SoleAnswer(outcome) == ProxyFinish(outcome)

\* invocation i has answered from its own POST only: the POST went to the
\* path of its own tool with its own arguments, the outcome the invocation
\* saw is the outcome of that POST, and the text is the one an invocation
\* running alone returns for that outcome
AnsweredFromOwnPost(i) ==
    /\ Cardinality(PostsOf(i)) = 1
    /\ \A k \in PostsOf(i) :
          /\ posts[k].url = API_BASE_URL \o endpoint_map[request[i].name.s]
          /\ posts[k].json = (IF request[i].arguments = PyNone THEN EmptyDict
                              ELSE request[i].arguments)
          /\ reply[i] = posts[k].outcome
          /\ response[i] = SoleAnswer(posts[k].outcome)

\* C28: when several tool invocations are in flight on the proxy at the
\* same time, each invocation returns a text derived only from the response
\* to its own POST: no interleaving delivers one call's response, error or
\* timeout to another call, and a call of an unknown name is answered
\* without a POST whatever the others do.
C28_OwnResponseOnly ==
    \A i \in InFlight :
        pc[i] = "responded" =>
            IF request[i].name.s \in ToolNames
            THEN AnsweredFromOwnPost(i)
            ELSE /\ PostsOf(i) = {} /\ reply[i] = NoReply
                 /\ response[i]
                      = Val(<<TextContent("Unknown tool: " \o request[i].name.s)>>)

\* two invocations were in flight together, the POST issued second was
\* settled with a timeout and the first with a 200 response, and each has
\* answered with its own outcome
C28_Witness ==
    /\ pc[1] = "responded" /\ pc[2] = "responded"
    /\ Len(posts) = 2 /\ posts[1].by = 1 /\ posts[2].by = 2
    /\ reply[1].kind = "response" /\ reply[1].status = 200
    /\ response[1] = Val(<<TextContent("2 + 3 = 5")>>)
    /\ reply[2].kind = "timeout"
    /\ response[2] = Val(<<TextContent("Error: Request timed out")>>)

====
